---------------------------- MODULE Spec2Model ----------------------------
(***************************************************************************)
(* A model of go.balki.me/anyhttp: the idle package (idle/idle.go) and the *)
(* serving part of the anyhttp package (serve, ServerCtx).                 *)
(*                                                                         *)
(* Time is a discrete wall clock `now`.  Every goroutine is a process      *)
(* whose steps are the statements of its code; the clock may advance       *)
(* between any two steps, so a goroutine can be delayed at any point.      *)
(***************************************************************************)
EXTENDS Integers, FiniteSets, Sequences, TLC

(***************************************************************************)
(* Bounds of the model.                                                    *)
(***************************************************************************)
\* The largest timeout an idler is created with.
MaxTimeout == 2
\* Callers begin a call of Tick/Enter/Exit only up to this clock value; a
\* call that has begun finishes whenever its goroutine runs.
MaxCallTime == 2
\* The number of Tick/Enter/Exit calls made in one behaviour.
MaxCalls == 2

\* The clock runs long enough past the last call for a quiescent idler to
\* fire: one full-timeout sleep and one more tick of the clock.
MaxNow == MaxCallTime + MaxTimeout + 1

Timeouts == 1..MaxTimeout
\* Idlers of the process: one per CreateIdler call the model makes.
IdlerIds == {1, 2}
\* Goroutines calling Tick/Enter/Exit (request handlers, background jobs).
Threads == {"h1", "h2"}
\* Goroutines observing the idle signal through Wait()/Chan().
Waiters == {"w1", "w2"}

\* Callers of ServerCtx.Wait and ServerCtx.Shutdown.
Clients == {"k1", "k2"}

Nil == 0

\* The certificate arguments of serve: "ok" when certFile is empty (plain
\* HTTP) or the key pair loads, "bad" when tls.LoadX509KeyPair fails on it.
CertFiles == {"ok", "bad"}

NoTask == [pc |-> "none", err |-> "none", cert |-> "none"]
NoRace == [pc |-> "none", branch |-> "none", sd |-> FALSE, sdres |-> "none",
           val |-> "none"]
NoClient == [pc |-> "out", op |-> "none", sdres |-> "none", got |-> "none",
             ret |-> "none"]

VARIABLES
    now,        \* time.Now()
    idler,      \* idler[i]: the fields of struct idler, and its timeout
    watcher,    \* watcher[i]: the goroutine CreateIdler starts
    thread,     \* thread[h]: a caller's position inside Tick/Exit
    waiter,     \* waiter[w]: an observer's position inside Wait
    calls,      \* Tick/Enter/Exit calls begun so far
    open,       \* jobs whose Enter has returned and whose Exit is not yet called
    misuse,     \* an Exit was called with no job open
    quiesced,   \* the callers have stopped calling for good
    gIdler,     \* the package variable gIdler (Nil or an idler)
    gcaller,    \* gcaller[i]: the position of the i-th call of idle.Wait
    idleMode,   \* serve took the branch with an idle timeout (part_000:782)
    inShutdown, \* Server.Shutdown has been called on ctx.Server
    serveTask,  \* the goroutine running serveFn(&ctx)
    raceTask,   \* the goroutine running the select of part_000:789-796
    client,     \* client[k]: a caller of ServerCtx.Wait or ServerCtx.Shutdown
    doneSent,   \* values sent on errChan (ctx.Done) so far
    firstEvt    \* which happened first: the idle signal or the serve loop's return

VARIABLES
    request,        \* request[h]: a request served by handler goroutine h
    env,            \* the process environment: LISTEN_PID, LISTEN_FDS, LISTEN_FDNAMES
    sysdEnvParser,  \* the package variable sysdEnvParser: sysdOnce, data, err
    call,           \* call[c]: a call of SysdConfig.GetListener by goroutine c
    sysdCalls,      \* calls of SysdConfig.GetListener begun so far
    parses,         \* times the function given to sysdOnce.Do was started
    envWrites,      \* os.Setenv/os.Unsetenv calls made by the rest of the program
    addr,           \* the address string given to GetListener
    given,          \* how addr was written: its path and its key=value pairs
    resolved,       \* what parseAddress(addr) returned
    outcome         \* what GetListener(addr) went on to do

VARIABLES
    sock,           \* a call of UnixSocketConfig.GetListener and the file at SocketPath
    srv,            \* a call of serve: its position and what it returned
    enters,         \* Enter calls that have returned (counted in SpecJobs)
    exits,          \* Exit calls that have returned (counted in SpecJobs)
    lastExit        \* the time.Now() of the Tick of the Exit that returned last

idleVars == <<now, idler, watcher, thread, waiter, calls, open, misuse, quiesced>>
globalVars == <<gIdler, gcaller>>
serveVars == <<idleMode, inShutdown, serveTask, raceTask, client, doneSent, firstEvt>>
reqVars == <<request>>
sysdVars == <<env, sysdEnvParser, call, sysdCalls, parses, envWrites>>
parseVars == <<addr, given, resolved, outcome>>
listenVars == <<sock, srv>>
jobVars == <<enters, exits, lastExit>>
extraVars == <<reqVars, sysdVars, parseVars, listenVars, jobVars>>
restVars == <<globalVars, serveVars, extraVars>>
vars == <<idleVars, globalVars, serveVars, extraVars>>

NoRequest == [pc |-> "none", arrived |-> 0, by |-> "none"]

\* No request is being served.
InitNoRequest == request = [h \in Threads |-> NoRequest]

\* Goroutines calling SysdConfig.GetListener.
Callers == {"c1", "c2"}

EnvVars == {"LISTEN_PID", "LISTEN_FDS", "LISTEN_FDNAMES"}

\* A string is the sequence of its bytes.  A variable that is not set has no
\* value.
Unset == [set |-> FALSE, val |-> <<>>]
SetTo(v) == [set |-> TRUE, val |-> v]

\* type sysdEnvData struct, zero value
NoData == [pid |-> <<"0">>, fdNames |-> <<>>, fdNamesStr |-> <<>>, numFds |-> <<"0">>]

\* var sysdEnvParser = struct{...}{}
NewParser == [once |-> "new", data |-> NoData, err |-> "nil"]

\* type SysdConfig struct, zero value; a nil pointer is the empty sequence
NoCfg == [FDIndex |-> <<>>, FDName |-> <<>>, CheckPID |-> FALSE, UnsetEnv |-> FALSE,
          IdleTimeout |-> <<>>]

NoCall == [pc |-> "none", n |-> 0, cfg |-> NoCfg, envData |-> NoData,
           err |-> "nil", fd |-> <<"0">>, name |-> <<>>, ret |-> "none"]

\* SysdConfig.GetListener has not been called: the environment is not set.
InitNoSysd ==
    /\ env = [v \in EnvVars |-> Unset]
    /\ sysdEnvParser = NewParser
    /\ call = [c \in Callers |-> NoCall]
    /\ sysdCalls = 0
    /\ parses = 0
    /\ envWrites = 0

NoGiven == [path |-> <<>>, pairs |-> <<>>]
NoResolved == [done |-> FALSE, addrType |-> "none", usc |-> <<>>, sysc |-> <<>>,
               err |-> "nil"]
NoOutcome == [done |-> FALSE, addrType |-> "none", listen |-> "none", on |-> <<>>,
              err |-> "nil"]

\* GetListener has not been called.
InitNoParse ==
    /\ addr = <<>>
    /\ given = NoGiven
    /\ resolved = NoResolved
    /\ outcome = NoOutcome

\* UnixSocketConfig.GetListener, zero value of its receiver
NoUsc == [SocketPath |-> <<>>, SocketMode |-> <<"0">>, RemoveExisting |-> FALSE]

\* UnixSocketConfig.GetListener has not been called; nothing is at the path.
NoSock == [pc |-> "none", cfg |-> NoUsc, file |-> "absent", removed |-> 0,
           binds |-> 0, l |-> "none", ret |-> "none"]

\* serve has not been called.
\* The handler argument h of serve: nil, or a handler of the program.
HandlerArgs == {"nil", "h"}

\* A handler as http.Server holds it: tick is the idler whose Tick it calls
\* first (none for a handler that is no wrapper), h the handler whose
\* ServeHTTP it is or calls.
\* A handler of the program (or nil), as given.
Unwrapped(h) == [tick |-> <<>>, h |-> h]

\* WrapIdlerHandler(i, h): if h == nil { h = http.DefaultServeMux }; the
\* returned handler calls i.Tick() and then h.ServeHTTP(w, r)
WrapIdlerHandler(i, h) == [tick |-> <<i>>, h |-> IF h = "nil" THEN "DefaultServeMux" ELSE h]

\* http.Server{Handler: ...} of serve: idle.WrapIdlerHandler(ctx.Idler, h)
\* with an idle timeout, h itself without one
ServerHandler(idle, i, h) == IF idle THEN WrapIdlerHandler(i, h) ELSE Unwrapped(h)

\* h is the handler argument of serve, handler the Handler of ctx.Server.
NoSrv == [pc |-> "none", ret |-> "none", handle |-> FALSE, tcp |-> "none",
          h |-> "none", handler |-> Unwrapped("none")]

InitNoListen == sock = NoSock /\ srv = NoSrv

\* No Enter and no Exit has returned.
InitNoJobs == enters = 0 /\ exits = 0 /\ lastExit = 0

\* The parts of the process a specification does not exercise.
InitExtra == InitNoRequest /\ InitNoSysd /\ InitNoParse /\ InitNoListen /\ InitNoJobs

(***************************************************************************)
(* struct idler and CreateIdler                                            *)
(***************************************************************************)
NoIdler == [alloc |-> FALSE, timeout |-> 0, lastTick |-> 0, active |-> 0,
            c |-> "open", closes |-> 0]
NoWatcher == [pc |-> "none", t |-> 0, wake |-> 0]

\* i := &idler{}; i.c = make(chan struct{}); i.Tick()
NewIdler(timeout) ==
    [alloc |-> TRUE, timeout |-> timeout, lastTick |-> now, active |-> 0,
     c |-> "open", closes |-> 0]

\* go func() { for { ... } close(i.c) }(): the goroutine at the top of its loop
NewWatcher == [pc |-> "check", t |-> 0, wake |-> 0]

\* CreateIdler(timeout) called for slot i
CreateIdler(i, timeout) ==
    /\ ~idler[i].alloc
    /\ idler' = [idler EXCEPT ![i] = NewIdler(timeout)]
    /\ watcher' = [watcher EXCEPT ![i] = NewWatcher]

(***************************************************************************)
(* The watcher goroutine                                                   *)
(***************************************************************************)
\* time.Duration.Abs
DurAbs(d) == IF d < 0 THEN -d ELSE d

\* t.Add(timeout).Sub(now)
Remaining(t, timeout, n) == (t + timeout) - n

\* The condition of line 105 inverted: break while time remains.
MutKeepsWaitingInverted(dur) == dur # DurAbs(dur)

\* The loop is left as soon as no time remains: dur <= 0 breaks.
MutKeepsWaitingOnlyPositive(dur) == dur > 0

\* if dur == dur.Abs() { sleep } else break
KeepsWaiting(dur) == dur = DurAbs(dur)

\* if i.active.Load() != 0 { time.Sleep(timeout); continue }
WatcherCheck(i) ==
    /\ watcher[i].pc = "check"
    /\ IF idler[i].active # 0
         THEN watcher' = [watcher EXCEPT ![i].pc = "sleepT",
                                         ![i].wake = now + idler[i].timeout]
         ELSE watcher' = [watcher EXCEPT ![i].pc = "load"]
    /\ UNCHANGED <<now, idler, thread, waiter, calls, open, misuse, quiesced>>

\* t := *i.lastTick.Load()
WatcherLoad(i) ==
    /\ watcher[i].pc = "load"
    /\ watcher' = [watcher EXCEPT ![i].pc = "decide", ![i].t = idler[i].lastTick]
    /\ UNCHANGED <<now, idler, thread, waiter, calls, open, misuse, quiesced>>

\* now := time.Now(); dur := t.Add(timeout).Sub(now);
\* if dur == dur.Abs() { time.Sleep(dur); continue }; break
WatcherDecide(i) ==
    /\ watcher[i].pc = "decide"
    /\ LET dur == Remaining(watcher[i].t, idler[i].timeout, now)
       IN IF KeepsWaiting(dur)
            THEN watcher' = [watcher EXCEPT ![i].pc = "sleepDur", ![i].t = 0,
                                            ![i].wake = now + dur]
            ELSE watcher' = [watcher EXCEPT ![i].pc = "close", ![i].t = 0]
    /\ UNCHANGED <<now, idler, thread, waiter, calls, open, misuse, quiesced>>

\* `return` in place of `continue` after the full-timeout sleep: the goroutine
\* ends without closing i.c.
MutWatcherWakeTReturns(i) ==
    /\ watcher[i].pc = "sleepT"
    /\ now >= watcher[i].wake
    /\ watcher' = [watcher EXCEPT ![i].pc = "done", ![i].wake = 0]
    /\ UNCHANGED <<now, idler, thread, waiter, calls, open, misuse, quiesced>>

\* time.Sleep(timeout) returns (not before its duration has passed); continue
WatcherWakeT(i) ==
    /\ watcher[i].pc = "sleepT"
    /\ now >= watcher[i].wake
    /\ watcher' = [watcher EXCEPT ![i].pc = "check", ![i].wake = 0]
    /\ UNCHANGED <<now, idler, thread, waiter, calls, open, misuse, quiesced>>

\* time.Sleep(dur) returns (not before its duration has passed); continue
WatcherWakeDur(i) ==
    /\ watcher[i].pc = "sleepDur"
    /\ now >= watcher[i].wake
    /\ watcher' = [watcher EXCEPT ![i].pc = "check", ![i].wake = 0]
    /\ UNCHANGED <<now, idler, thread, waiter, calls, open, misuse, quiesced>>

\* close(i.c) inside the loop: the goroutine goes round again and closes twice.
MutWatcherCloseLoops(i) ==
    /\ watcher[i].pc = "close"
    /\ watcher' = [watcher EXCEPT ![i].pc = "check"]
    /\ idler' = [idler EXCEPT ![i].c = "closed", ![i].closes = @ + 1]
    /\ UNCHANGED <<now, thread, waiter, calls, open, misuse, quiesced>>

\* close(i.c); the goroutine ends
WatcherClose(i) ==
    /\ watcher[i].pc = "close"
    /\ watcher' = [watcher EXCEPT ![i].pc = "done"]
    /\ idler' = [idler EXCEPT ![i].c = "closed", ![i].closes = @ + 1]
    /\ UNCHANGED <<now, thread, waiter, calls, open, misuse, quiesced>>

WatcherStep(i) ==
    \/ WatcherCheck(i)
    \/ WatcherLoad(i)
    \/ WatcherDecide(i)
    \/ WatcherWakeT(i)
    \/ WatcherWakeDur(i)
    \/ WatcherClose(i)

(***************************************************************************)
(* Tick, Enter, Exit                                                       *)
(***************************************************************************)
IdleThread == [pc |-> "idle", id |-> Nil, tnow |-> 0]

\* A caller may begin a call: it is between calls and the callers are still
\* calling.
MayCall(h, i) ==
    /\ thread[h].pc = "idle"
    /\ idler[i].alloc
    /\ ~quiesced
    /\ calls < MaxCalls
    /\ now <= MaxCallTime

\* func (i *idler) Tick(): now := time.Now()
TickBegin(h, i) ==
    /\ MayCall(h, i)
    /\ thread' = [thread EXCEPT ![h] = [pc |-> "tickStore", id |-> i, tnow |-> now]]
    /\ calls' = calls + 1
    /\ UNCHANGED <<now, idler, watcher, waiter, open, misuse, quiesced>>

\* i.lastTick.Store(&now), in Tick and in the Tick that Exit makes
TickStore(h) ==
    /\ thread[h].pc \in {"tickStore", "exitStore"}
    /\ idler' = [idler EXCEPT ![thread[h].id].lastTick = thread[h].tnow]
    /\ thread' = [thread EXCEPT ![h] =
                    IF thread[h].pc = "tickStore"
                      THEN IdleThread
                      ELSE [thread[h] EXCEPT !.pc = "exitDec"]]
    /\ UNCHANGED <<now, watcher, waiter, calls, open, misuse, quiesced>>

\* The counter is set to one in place of being incremented.
MutEnterStoresOne(h, i) ==
    /\ MayCall(h, i)
    /\ idler' = [idler EXCEPT ![i].active = 1]
    /\ calls' = calls + 1
    /\ open' = open + 1
    /\ UNCHANGED <<now, watcher, thread, waiter, misuse, quiesced>>

\* func (i *idler) Enter(): i.active.Add(1)
Enter(h, i) ==
    /\ MayCall(h, i)
    /\ idler' = [idler EXCEPT ![i].active = @ + 1]
    /\ calls' = calls + 1
    /\ open' = open + 1
    /\ UNCHANGED <<now, watcher, thread, waiter, misuse, quiesced>>

\* func (i *idler) Exit(): the call, and the time.Now() of its i.Tick()
ExitBegin(h, i) ==
    /\ MayCall(h, i)
    /\ thread' = [thread EXCEPT ![h] = [pc |-> "exitStore", id |-> i, tnow |-> now]]
    /\ calls' = calls + 1
    /\ IF open > 0
         THEN open' = open - 1 /\ UNCHANGED misuse
         ELSE misuse' = TRUE /\ UNCHANGED open
    /\ UNCHANGED <<now, idler, watcher, waiter, quiesced>>

\* i.active.Add(-1), the last statement of Exit
ExitDec(h) ==
    /\ thread[h].pc = "exitDec"
    /\ idler' = [idler EXCEPT ![thread[h].id].active = @ - 1]
    /\ thread' = [thread EXCEPT ![h] = IdleThread]
    /\ UNCHANGED <<now, watcher, waiter, calls, open, misuse, quiesced>>

\* The callers stop: every call has returned and from here on nobody calls
\* Tick, Enter or Exit.  Like the calls, the stop comes by MaxCallTime, so
\* that the clock runs long enough after it.
Quiesce ==
    /\ ~quiesced
    /\ now <= MaxCallTime
    /\ \A h \in Threads : thread[h].pc = "idle"
    /\ quiesced' = TRUE
    /\ UNCHANGED <<now, idler, watcher, thread, waiter, calls, open, misuse>>

(***************************************************************************)
(* Wait and Chan                                                           *)
(***************************************************************************)
\* i.Wait() is called, or a receive from i.Chan() is begun
WaitCall(w) ==
    /\ waiter[w] \in {"out", "ret"}
    /\ waiter' = [waiter EXCEPT ![w] = "recv"]
    /\ UNCHANGED <<now, idler, watcher, thread, calls, open, misuse, quiesced>>

\* <-i.c: a receive from a channel completes only once the channel is closed
\* (nothing is ever sent on i.c)
WaitRecv(w, i) ==
    /\ waiter[w] = "recv"
    /\ idler[i].c = "closed"
    /\ waiter' = [waiter EXCEPT ![w] = "ret"]
    /\ UNCHANGED <<now, idler, watcher, thread, calls, open, misuse, quiesced>>

(***************************************************************************)
(* The clock                                                               *)
(***************************************************************************)
Advance ==
    /\ now < MaxNow
    /\ now' = now + 1
    /\ UNCHANGED <<idler, watcher, thread, waiter, calls, open, misuse, quiesced>>

(***************************************************************************)
(* Spec: one idler made by CreateIdler(T), its watcher, its callers and    *)
(* its observers.                                                          *)
(***************************************************************************)
TheIdler == 1

InitCommon ==
    /\ now = 0
    /\ thread = [h \in Threads |-> IdleThread]
    /\ waiter = [w \in Waiters |-> "out"]
    /\ calls = 0
    /\ open = 0
    /\ misuse = FALSE
    /\ quiesced = FALSE
    /\ gIdler = Nil
    /\ gcaller = [i \in IdlerIds |-> [pc |-> "none", ret |-> "none"]]

\* No server has been started.
InitNoServer ==
    /\ idleMode = FALSE
    /\ inShutdown = FALSE
    /\ serveTask = NoTask
    /\ raceTask = NoRace
    /\ client = [k \in Clients |-> NoClient]
    /\ doneSent = 0
    /\ firstEvt = "none"

\* The state when CreateIdler(T) returns.
Init ==
    /\ InitCommon
    /\ InitNoServer
    /\ InitExtra
    /\ \E T \in Timeouts :
         /\ idler = [i \in IdlerIds |-> IF i = TheIdler THEN NewIdler(T) ELSE NoIdler]
         /\ watcher = [i \in IdlerIds |-> IF i = TheIdler THEN NewWatcher ELSE NoWatcher]

Next ==
    \/ \E h \in Threads : TickBegin(h, TheIdler) /\ UNCHANGED restVars
    \/ \E h \in Threads : TickStore(h) /\ UNCHANGED restVars
    \/ \E h \in Threads : Enter(h, TheIdler) /\ UNCHANGED restVars
    \/ \E h \in Threads : ExitBegin(h, TheIdler) /\ UNCHANGED restVars
    \/ \E h \in Threads : ExitDec(h) /\ UNCHANGED restVars
    \/ Quiesce /\ UNCHANGED restVars
    \/ WatcherCheck(TheIdler) /\ UNCHANGED restVars
    \/ WatcherLoad(TheIdler) /\ UNCHANGED restVars
    \/ WatcherDecide(TheIdler) /\ UNCHANGED restVars
    \/ WatcherWakeT(TheIdler) /\ UNCHANGED restVars
    \/ WatcherWakeDur(TheIdler) /\ UNCHANGED restVars
    \/ WatcherClose(TheIdler) /\ UNCHANGED restVars
    \/ Advance /\ UNCHANGED restVars

Spec == Init /\ [][Next]_vars

\* The Go scheduler runs every runnable goroutine eventually, and the clock
\* keeps advancing: the watcher's steps and the clock are weakly fair.
\* Nothing obliges the callers to call.
Fairness ==
    /\ WF_vars(WatcherStep(TheIdler) /\ UNCHANGED restVars)
    /\ WF_vars(Advance /\ UNCHANGED restVars)

SpecFair == Spec /\ Fairness

(***************************************************************************)
(* SpecObs: the same idler with observers calling Wait() and reading       *)
(* Chan().                                                                 *)
(***************************************************************************)
NextObs ==
    \/ Next
    \/ \E w \in Waiters : WaitCall(w) /\ UNCHANGED restVars
    \/ \E w \in Waiters : WaitRecv(w, TheIdler) /\ UNCHANGED restVars

SpecObs == Init /\ [][NextObs]_vars

(***************************************************************************)
(* SpecGlobal: the package-level idler, idle.Wait and idle.Tick.  The i-th *)
(* call of idle.Wait makes idler i.                                        *)
(***************************************************************************)
\* func Wait(timeout): i := CreateIdler(timeout).(*idler)
GWaitCreate(g, timeout) ==
    /\ gcaller[g].pc = "none"
    /\ \A k \in IdlerIds : k < g => gcaller[k].pc # "none"
    /\ now <= MaxCallTime
    /\ CreateIdler(g, timeout)
    /\ gcaller' = [gcaller EXCEPT ![g].pc = "cas"]
    /\ UNCHANGED <<now, thread, waiter, calls, open, misuse, quiesced, gIdler>>

\* A plain store in place of the compare-and-swap.
MutGWaitCasStores(g) ==
    /\ gcaller[g].pc = "cas"
    /\ gIdler' = g
    /\ gcaller' = [gcaller EXCEPT ![g].pc = "wait"]
    /\ UNCHANGED idleVars

\* ok := gIdler.CompareAndSwap(nil, i);
\* if !ok { return fmt.Errorf("idler already waiting") }
GWaitCas(g) ==
    /\ gcaller[g].pc = "cas"
    /\ IF gIdler = Nil
         THEN /\ gIdler' = g
              /\ gcaller' = [gcaller EXCEPT ![g].pc = "wait"]
         ELSE /\ gcaller' = [gcaller EXCEPT ![g] = [pc |-> "done", ret |-> "err"]]
              /\ UNCHANGED gIdler
    /\ UNCHANGED idleVars

\* i.Wait(); return nil
GWaitRecv(g) ==
    /\ gcaller[g].pc = "wait"
    /\ idler[g].c = "closed"
    /\ gcaller' = [gcaller EXCEPT ![g] = [pc |-> "done", ret |-> "nil"]]
    /\ UNCHANGED <<idleVars, gIdler>>

\* func Tick(): i := gIdler.Load(); if i != nil { i.Tick() }, up to the
\* time.Now() of i.Tick()
GlobalTick(h) ==
    /\ thread[h].pc = "idle"
    /\ ~quiesced
    /\ calls < MaxCalls
    /\ now <= MaxCallTime
    /\ calls' = calls + 1
    /\ IF gIdler = Nil
         THEN UNCHANGED thread
         ELSE thread' = [thread EXCEPT ![h] =
                            [pc |-> "tickStore", id |-> gIdler, tnow |-> now]]
    /\ UNCHANGED <<now, idler, watcher, waiter, open, misuse, quiesced>>

\* The request handlers calling the package-level Tick.
GlobalTickers == {"h1"}

\* The state of the process before any call.
InitGlobal ==
    /\ InitCommon
    /\ InitNoServer
    /\ InitExtra
    /\ idler = [i \in IdlerIds |-> NoIdler]
    /\ watcher = [i \in IdlerIds |-> NoWatcher]

NextGlobal ==
    \/ \E g \in IdlerIds, T \in Timeouts : GWaitCreate(g, T) /\ UNCHANGED <<serveVars, extraVars>>
    \/ \E g \in IdlerIds : GWaitCas(g) /\ UNCHANGED <<serveVars, extraVars>>
    \/ \E g \in IdlerIds : GWaitRecv(g) /\ UNCHANGED <<serveVars, extraVars>>
    \/ \E h \in GlobalTickers : GlobalTick(h) /\ UNCHANGED restVars
    \/ \E h \in GlobalTickers : TickStore(h) /\ UNCHANGED restVars
    \/ \E i \in IdlerIds : WatcherCheck(i) /\ UNCHANGED restVars
    \/ \E i \in IdlerIds : WatcherLoad(i) /\ UNCHANGED restVars
    \/ \E i \in IdlerIds : WatcherDecide(i) /\ UNCHANGED restVars
    \/ \E i \in IdlerIds : WatcherWakeDur(i) /\ UNCHANGED restVars
    \/ \E i \in IdlerIds : WatcherClose(i) /\ UNCHANGED restVars
    \/ Advance /\ UNCHANGED restVars

SpecGlobal == InitGlobal /\ [][NextGlobal]_vars

(***************************************************************************)
(* The server started by serve, from the moment serve returns.             *)
(* http.Server is the collaborator: Serve(listener) runs until Shutdown is *)
(* called (it then returns ErrServerClosed) or until a fatal accept error; *)
(* Shutdown makes a running Serve return and itself returns nil or an      *)
(* error.                                                                  *)
(***************************************************************************)
\* What Server.Shutdown returns.
ShutdownResults == {"nil", "ErrShutdown"}

idleSide == <<now, idler, watcher, thread, waiter, calls, open, misuse, quiesced>>

FirstIs(e) == IF firstEvt = "none" THEN e ELSE firstEvt

\* serveFn(&ctx) returns.  ServeTLS loads the key pair first and returns its
\* error, whether or not Shutdown was called; otherwise Serve runs until
\* Shutdown (ErrServerClosed) or a fatal accept error.
ServeReturn ==
    /\ serveTask.pc = "serving"
    /\ serveTask' = [serveTask EXCEPT
                       !.pc = "send",
                       !.err = IF serveTask.cert = "bad" THEN "ErrCertificate"
                               ELSE IF inShutdown THEN "ErrServerClosed"
                               ELSE "ErrAccept"]
    /\ firstEvt' = FirstIs("serve")
    /\ UNCHANGED <<idleMode, inShutdown, raceTask, client, doneSent>>
    /\ UNCHANGED <<idleSide, globalVars, extraVars>>

\* select { case err := <-waitErrChan: ... }: the rendezvous with the send
\* waitErrChan <- serveFn(&ctx)
RaceRecvServe ==
    /\ raceTask.pc = "select"
    /\ serveTask.pc = "send"
    /\ raceTask' = [raceTask EXCEPT !.pc = "send", !.branch = "serve",
                                    !.val = serveTask.err]
    /\ serveTask' = [serveTask EXCEPT !.pc = "done"]
    /\ UNCHANGED <<idleMode, inShutdown, client, doneSent, firstEvt>>
    /\ UNCHANGED <<idleSide, globalVars, extraVars>>

\* select { case <-ctx.Idler.Chan(): ... }
RaceIdle ==
    /\ raceTask.pc = "select"
    /\ idler[TheIdler].c = "closed"
    /\ raceTask' = [raceTask EXCEPT !.pc = "shutdown", !.branch = "idle"]
    /\ UNCHANGED <<idleMode, inShutdown, serveTask, client, doneSent, firstEvt>>
    /\ UNCHANGED <<idleSide, globalVars, extraVars>>

\* ctx.Server.Shutdown(context.TODO()) is called by the race task
RaceShutdownCall ==
    /\ raceTask.pc = "shutdown"
    /\ inShutdown' = TRUE
    /\ raceTask' = [raceTask EXCEPT !.pc = "shutdownRet", !.sd = TRUE]
    /\ UNCHANGED <<idleMode, serveTask, client, doneSent, firstEvt>>
    /\ UNCHANGED <<idleSide, globalVars, extraVars>>

\* ctx.Server.Shutdown returns r; its result is the operand of errChan <-
RaceShutdownReturn(r) ==
    /\ raceTask.pc = "shutdownRet"
    /\ raceTask' = [raceTask EXCEPT !.pc = "send", !.sdres = r, !.val = r]
    /\ UNCHANGED <<idleMode, inShutdown, serveTask, client, doneSent, firstEvt>>
    /\ UNCHANGED <<idleSide, globalVars, extraVars>>

\* The race task sends twice: it goes back to its select after the send.
MutRaceSendLoops(k) ==
    /\ raceTask.pc = "send"
    /\ client[k].pc = "recv"
    /\ raceTask' = [raceTask EXCEPT !.pc = "select"]
    /\ client' = [client EXCEPT ![k].pc = "ret", ![k].got = raceTask.val,
                                ![k].ret = raceTask.val]
    /\ doneSent' = doneSent + 1
    /\ UNCHANGED <<idleMode, inShutdown, serveTask, firstEvt>>
    /\ UNCHANGED <<idleSide, globalVars, extraVars>>

\* errChan <- err / errChan <- ctx.Server.Shutdown(...) by the race task,
\* received by <-s.Done in ServerCtx.Wait or ServerCtx.Shutdown
RaceSend(k) ==
    /\ raceTask.pc = "send"
    /\ client[k].pc = "recv"
    /\ raceTask' = [raceTask EXCEPT !.pc = "done"]
    /\ client' = [client EXCEPT ![k].pc = "ret", ![k].got = raceTask.val,
                                ![k].ret = raceTask.val]
    /\ doneSent' = doneSent + 1
    /\ UNCHANGED <<idleMode, inShutdown, serveTask, firstEvt>>
    /\ UNCHANGED <<idleSide, globalVars, extraVars>>

\* errChan <- serveFn(&ctx) in a server without idle timeout, received by
\* <-s.Done
ServeSend(k) ==
    /\ ~idleMode
    /\ serveTask.pc = "send"
    /\ client[k].pc = "recv"
    /\ serveTask' = [serveTask EXCEPT !.pc = "done"]
    /\ client' = [client EXCEPT ![k].pc = "ret", ![k].got = serveTask.err,
                                ![k].ret = serveTask.err]
    /\ doneSent' = doneSent + 1
    /\ UNCHANGED <<idleMode, inShutdown, raceTask, firstEvt>>
    /\ UNCHANGED <<idleSide, globalVars, extraVars>>

\* func (s *ServerCtx) Wait() error { return <-s.Done }: the call
ClientWait(k) ==
    /\ client[k].pc = "out"
    /\ client' = [client EXCEPT ![k].pc = "recv", ![k].op = "Wait"]
    /\ UNCHANGED <<idleMode, inShutdown, serveTask, raceTask, doneSent, firstEvt>>
    /\ UNCHANGED <<idleSide, globalVars, extraVars>>

\* func (s *ServerCtx) Shutdown(ctx): s.Server.Shutdown(ctx) is called
ClientShutdownCall(k) ==
    /\ client[k].pc = "out"
    /\ inShutdown' = TRUE
    /\ client' = [client EXCEPT ![k].pc = "shutdownRet", ![k].op = "Shutdown"]
    /\ UNCHANGED <<idleMode, serveTask, raceTask, doneSent, firstEvt>>
    /\ UNCHANGED <<idleSide, globalVars, extraVars>>

\* The error of Server.Shutdown dropped: Shutdown always goes on to <-s.Done.
MutClientShutdownDropsErr(k, r) ==
    /\ client[k].pc = "shutdownRet"
    /\ client' = [client EXCEPT ![k].pc = "recv", ![k].sdres = r]
    /\ UNCHANGED <<idleMode, inShutdown, serveTask, raceTask, doneSent, firstEvt>>
    /\ UNCHANGED <<idleSide, globalVars, extraVars>>

\* err := s.Server.Shutdown(ctx) returns r; if err != nil { return err };
\* otherwise go on to return <-s.Done
ClientShutdownReturn(k, r) ==
    /\ client[k].pc = "shutdownRet"
    /\ IF r # "nil"
         THEN client' = [client EXCEPT ![k].pc = "ret", ![k].sdres = r, ![k].ret = r]
         ELSE client' = [client EXCEPT ![k].pc = "recv", ![k].sdres = r]
    /\ UNCHANGED <<idleMode, inShutdown, serveTask, raceTask, doneSent, firstEvt>>
    /\ UNCHANGED <<idleSide, globalVars, extraVars>>

\* close(i.c) by the watcher of ctx.Idler
ServeWatcherClose ==
    /\ WatcherClose(TheIdler)
    /\ firstEvt' = FirstIs("idle")
    /\ UNCHANGED <<idleMode, inShutdown, serveTask, raceTask, client, doneSent>>
    /\ UNCHANGED <<globalVars, extraVars>>

\* The state when serve returns &ctx: the listener is bound, the goroutines
\* are started, and with an idle timeout ctx.Idler is CreateIdler(T).
InitServe ==
    /\ InitCommon
    /\ InitNoRequest /\ InitNoSysd /\ InitNoParse /\ InitNoJobs
    /\ sock = NoSock
    /\ idleMode \in BOOLEAN
    /\ \E a \in HandlerArgs :
         srv = [NoSrv EXCEPT !.h = a, !.handler = ServerHandler(idleMode, TheIdler, a)]
    /\ inShutdown = FALSE
    /\ \E c \in CertFiles : serveTask = [pc |-> "serving", err |-> "none", cert |-> c]
    /\ raceTask = IF idleMode THEN [NoRace EXCEPT !.pc = "select"] ELSE NoRace
    /\ client = [k \in Clients |-> NoClient]
    /\ doneSent = 0
    /\ firstEvt = "none"
    /\ \E T \in Timeouts :
         /\ idler = [i \in IdlerIds |->
                       IF idleMode /\ i = TheIdler THEN NewIdler(T) ELSE NoIdler]
         /\ watcher = [i \in IdlerIds |->
                         IF idleMode /\ i = TheIdler THEN NewWatcher ELSE NoWatcher]

\* The goroutines of the server and the callers K of Wait and Shutdown.
NextServeOf(K) ==
    \/ ServeReturn
    \/ WatcherCheck(TheIdler) /\ UNCHANGED restVars
    \/ WatcherLoad(TheIdler) /\ UNCHANGED restVars
    \/ WatcherDecide(TheIdler) /\ UNCHANGED restVars
    \/ WatcherWakeDur(TheIdler) /\ UNCHANGED restVars
    \/ ServeWatcherClose
    \/ Advance /\ UNCHANGED restVars
    \/ RaceRecvServe
    \/ RaceIdle
    \/ RaceShutdownCall
    \/ \E r \in ShutdownResults : RaceShutdownReturn(r)
    \/ \E k \in K : RaceSend(k)
    \/ \E k \in K : ServeSend(k)
    \/ \E k \in K : ClientWait(k)
    \/ \E k \in K : ClientShutdownCall(k)
    \/ \E k \in K, r \in ShutdownResults : ClientShutdownReturn(k, r)

\* The server while no request arrives, with every client calling.
NextServeQuiet == NextServeOf(Clients)

\* Every runnable goroutine of the server runs eventually, a rendezvous on a
\* channel with both sides ready happens, Server.Shutdown returns and the
\* clock advances.  Nothing obliges the serve loop to end or clients to call,
\* but ServeTLS with a key pair that does not load returns.
FairnessServe ==
    /\ WF_vars(serveTask.cert = "bad" /\ ServeReturn)
    /\ WF_vars(WatcherStep(TheIdler) /\ UNCHANGED restVars)
    /\ WF_vars(ServeWatcherClose)
    /\ WF_vars(Advance /\ UNCHANGED restVars)
    /\ WF_vars(RaceRecvServe \/ RaceIdle)
    /\ WF_vars(RaceShutdownCall)
    /\ WF_vars(\E r \in ShutdownResults : RaceShutdownReturn(r))
    /\ WF_vars(\E k \in Clients : RaceSend(k))
    /\ WF_vars(\E k \in Clients : ServeSend(k))
    /\ WF_vars(\E k \in Clients, r \in ShutdownResults : ClientShutdownReturn(k, r))

\* The fair server while no request arrives (a request only moves lastTick).
SpecServeQuietFair == InitServe /\ [][NextServeQuiet]_vars /\ FairnessServe

(***************************************************************************)
(* SpecRequests: the requests of a server with an idle timeout.  net/http   *)
(* serves every request on a goroutine of its own, which calls the handler  *)
(* that serve installed: idle.WrapIdlerHandler(ctx.Idler, h).               *)
(***************************************************************************)
\* A request arrives on a connection the serve loop accepted and net/http is
\* about to call the handler.  The connection outlives the serve loop: the
\* request may come after Serve returned or Shutdown was called.  ServeTLS
\* with a key pair that does not load accepts no connection.
RequestArrive(h) ==
    /\ srv.handler.tick # <<>>
    /\ serveTask.cert = "ok"
    /\ request[h].pc = "none"
    /\ thread[h].pc = "idle"
    /\ calls < MaxCalls
    /\ now <= MaxCallTime
    /\ request' = [request EXCEPT ![h] = [pc |-> "arrived", arrived |-> now,
                                          by |-> "none"]]
    /\ calls' = calls + 1
    /\ UNCHANGED <<now, idler, watcher, thread, waiter, open, misuse, quiesced>>
    /\ UNCHANGED <<globalVars, serveVars, sysdVars, parseVars, listenVars, jobVars>>

\* WrapIdlerHandler's handler: i.Tick(), up to the time.Now() of Tick.  It
\* is the first statement of the handler and runs whenever the goroutine of
\* the request is scheduled.
WrapIdlerHandlerTick(h) ==
    /\ request[h].pc = "arrived"
    /\ thread' = [thread EXCEPT ![h] = [pc |-> "tickStore",
                                        id |-> srv.handler.tick[1],
                                        tnow |-> now]]
    /\ request' = [request EXCEPT ![h].pc = "tick"]
    /\ UNCHANGED <<now, idler, watcher, waiter, calls, open, misuse, quiesced>>
    /\ UNCHANGED <<globalVars, serveVars, sysdVars, parseVars, listenVars, jobVars>>

\* WrapIdlerHandler's handler: h.ServeHTTP(w, r), once i.Tick() has returned;
\* h is the handler of the program, or http.DefaultServeMux when it gave nil
HandlerStart(h) ==
    /\ request[h].pc = "tick"
    /\ thread[h].pc = "idle"
    /\ request' = [request EXCEPT ![h].pc = "handler", ![h].by = srv.handler.h]
    /\ UNCHANGED <<idleVars, globalVars, serveVars, sysdVars, parseVars, listenVars, jobVars>>

\* h.ServeHTTP(w, r) returns
HandlerReturn(h) ==
    /\ request[h].pc = "handler"
    /\ request' = [request EXCEPT ![h] = NoRequest]
    /\ UNCHANGED <<idleVars, globalVars, serveVars, sysdVars, parseVars, listenVars, jobVars>>

\* The state when serve returns a server with an idle timeout.
InitRequests ==
    /\ InitCommon
    /\ InitNoRequest /\ InitNoSysd /\ InitNoParse /\ InitNoJobs
    /\ sock = NoSock
    /\ \E a \in HandlerArgs :
         srv = [NoSrv EXCEPT !.h = a, !.handler = ServerHandler(TRUE, TheIdler, a)]
    /\ idleMode = TRUE
    /\ inShutdown = FALSE
    /\ serveTask = [pc |-> "serving", err |-> "none", cert |-> "ok"]
    /\ raceTask = [NoRace EXCEPT !.pc = "select"]
    /\ client = [k \in Clients |-> NoClient]
    /\ doneSent = 0
    /\ firstEvt = "none"
    /\ \E T \in Timeouts :
         /\ idler = [i \in IdlerIds |-> IF i = TheIdler THEN NewIdler(T) ELSE NoIdler]
         /\ watcher = [i \in IdlerIds |-> IF i = TheIdler THEN NewWatcher ELSE NoWatcher]

NextRequests ==
    \/ \E h \in Threads : RequestArrive(h)
    \/ \E h \in Threads : WrapIdlerHandlerTick(h)
    \/ \E h \in Threads : TickStore(h) /\ UNCHANGED restVars
    \/ \E h \in Threads : HandlerStart(h)
    \/ \E h \in Threads : HandlerReturn(h)
    \/ WatcherCheck(TheIdler) /\ UNCHANGED restVars
    \/ WatcherLoad(TheIdler) /\ UNCHANGED restVars
    \/ WatcherDecide(TheIdler) /\ UNCHANGED restVars
    \/ WatcherWakeDur(TheIdler) /\ UNCHANGED restVars
    \/ ServeWatcherClose
    \/ Advance /\ UNCHANGED restVars

SpecRequests == InitRequests /\ [][NextRequests]_vars

(***************************************************************************)
(* Strings of the systemd environment and their conversions                *)
(***************************************************************************)
\* The string with the text s: the sequence of its bytes, each a one-character
\* string.
Str(s) == <<>> \o [i \in 1..Len(s) |-> SubSeq(s, i, i)]

Digits == <<"0", "1", "2", "3", "4", "5", "6", "7", "8", "9">>
DigitSet == {Digits[i] : i \in 1..10}
DigitVal(ch) == (CHOOSE i \in 1..10 : Digits[i] = ch) - 1

RECURSIVE DecValue(_)
\* The number a string of decimal digits denotes, for a number of 31 bits.
DecValue(s) ==
    IF s = <<>> THEN 0
    ELSE 10 * DecValue(SubSeq(s, 1, Len(s) - 1)) + DigitVal(s[Len(s)])

RECURSIVE Itoa(_)
\* The decimal text of a number of the model that is not negative.
Itoa(n) ==
    IF n < 10 THEN <<Digits[n + 1]>>
    ELSE Itoa(n \div 10) \o <<Digits[(n % 10) + 1]>>

\* The length of the longest prefix of s whose bytes are all in set.
PrefixIn(s, set) ==
    LET out == {i \in 1..Len(s) : s[i] \notin set}
    IN IF out = {} THEN Len(s) ELSE (CHOOSE i \in out : \A j \in out : i <= j) - 1

\* The length of the longest prefix of s with no byte in set.
PrefixNotIn(s, set) ==
    LET in == {i \in 1..Len(s) : s[i] \in set}
    IN IF in = {} THEN Len(s) ELSE (CHOOSE i \in in : \A j \in in : i <= j) - 1

(***************************************************************************)
(* Integers of the program.  An int of the program has 64 bits, more than  *)
(* an integer of the model: a number read from a string is kept as its     *)
(* decimal text, the digits strconv.Itoa prints with "-" before a negative *)
(* number.  The arithmetic of the program is done on limbs: a natural      *)
(* number is the sequence of its digits in base 2^15, the lowest first,    *)
(* zero the empty sequence.                                                *)
(***************************************************************************)
Zero == <<"0">>
One == <<"1">>

\* The number n of the model as decimal text.
Num(n) == IF n < 0 THEN <<"-">> \o Itoa(-n) ELSE Itoa(n)

DropZeros(s, z) == IF z = Len(s) THEN Zero ELSE SubSeq(s, z + 1, Len(s))

\* The decimal text of a natural number without its leading zeros.
NatCanon(s) == DropZeros(s, PrefixIn(s, {"0"}))

DigitValue == [c \in DigitSet |-> DigitVal(c)]

\* a < b, for natural numbers as text without leading zeros
NatLess(a, b) ==
    \/ Len(a) < Len(b)
    \/ /\ Len(a) = Len(b)
       /\ \E i \in 1..Len(a) :
            /\ DigitValue[a[i]] < DigitValue[b[i]]
            /\ \A j \in 1..(i - 1) : a[j] = b[j]

IsNegative(x) == x[1] = "-"

\* -x, for an integer as text
IntNeg(x) ==
    IF x = Zero THEN Zero ELSE IF IsNegative(x) THEN Tail(x) ELSE <<"-">> \o x

\* a < b, for integers as text
IntLess(a, b) ==
    IF IsNegative(a)
      THEN IsNegative(b) => NatLess(Tail(b), Tail(a))
      ELSE ~IsNegative(b) /\ NatLess(a, b)

\* The number of the model that the text x is, for a number of 31 bits.
IntVal(x) == IF IsNegative(x) THEN -DecValue(Tail(x)) ELSE DecValue(x)

LimbBase == 2^15

\* The sequence f with each of its elements computed, once.
Tuple(f) == <<>> \o f

TrimTuple(a) ==
    SubSeq(a, 1, IF \A i \in 1..Len(a) : a[i] = 0 THEN 0
                 ELSE CHOOSE i \in 1..Len(a) :
                        a[i] # 0 /\ \A j \in (i + 1)..Len(a) : a[j] = 0)

\* The limbs a without the zeros at the high end.
Trim(a) == TrimTuple(Tuple(a))

\* The i-th limb of a, 0 where a has none.
Limb(a, i) == IF 0 < i /\ i <= Len(a) THEN a[i] ELSE 0

\* a < b, for limbs
LimbLess(a, b) ==
    \/ Len(a) < Len(b)
    \/ /\ Len(a) = Len(b)
       /\ \E i \in 1..Len(a) :
            /\ a[i] < b[i]
            /\ \A j \in (i + 1)..Len(a) : a[j] = b[j]

\* The carry into the i-th limb of a + b: a limb below overflows and the
\* limbs between pass the carry on.
Carry(a, b, i) ==
    IF \E j \in 1..(i - 1) :
         /\ Limb(a, j) + Limb(b, j) >= LimbBase
         /\ \A k \in (j + 1)..(i - 1) : Limb(a, k) + Limb(b, k) = LimbBase - 1
      THEN 1 ELSE 0

LimbSum(a, b, n) ==
    Trim([i \in 1..n |-> (Limb(a, i) + Limb(b, i) + Carry(a, b, i)) % LimbBase])

\* a + b, for limbs
LimbAdd(a, b) == LimbSum(a, b, (IF Len(a) > Len(b) THEN Len(a) ELSE Len(b)) + 1)

\* The limbs of the number with the digits w in base 2^15, digits that may
\* be 2^15 and more: what of a digit is below 2^15 and, a limb higher, the
\* rest
CarriedTuple(w) ==
    LimbAdd(Tuple([i \in 1..Len(w) |-> w[i] % LimbBase]),
            Tuple([i \in 1..(Len(w) + 1) |-> Limb(w, i - 1) \div LimbBase]))

Carried(w) == CarriedTuple(Tuple(w))

\* The borrow from the i-th limb of a - b.
Borrow(a, b, i) ==
    IF \E j \in 1..(i - 1) :
         /\ a[j] < Limb(b, j)
         /\ \A k \in (j + 1)..(i - 1) : a[k] = Limb(b, k)
      THEN 1 ELSE 0

\* a - b, for limbs with a >= b
LimbSub(a, b) ==
    Trim([i \in 1..Len(a) |->
            (a[i] - Limb(b, i) - Borrow(a, b, i) + LimbBase) % LimbBase])

\* What the j-th limb of b gives to the i-th digit of a * b: the low half of
\* its product with the limb of a that meets it there, and the high half of
\* its product with the limb below that
Partial(a, b, i, j) ==
    IF j > Len(b) \/ j > i THEN 0
    ELSE ((Limb(a, i - j + 1) * b[j]) % LimbBase) + ((Limb(a, i - j) * b[j]) \div LimbBase)

Partials(a, b) ==
    Carried([i \in 1..(Len(a) + Len(b)) |->
               Partial(a, b, i, 1) + Partial(a, b, i, 2) + Partial(a, b, i, 3)
               + Partial(a, b, i, 4) + Partial(a, b, i, 5)])

\* a * b, for limbs of which a or b has at most five
LimbMul(a, b) ==
    IF a = <<>> \/ b = <<>> THEN <<>>
    ELSE Partials(IF Len(a) < Len(b) THEN b ELSE a, IF Len(a) < Len(b) THEN a ELSE b)

\* The bits of the limb x > 0, and of the limbs a
LimbBits(x) == CHOOSE k \in 1..15 : 2^(k - 1) <= x /\ x < 2^k
BitLen(a) == IF a = <<>> THEN 0 ELSE 15 * (Len(a) - 1) + LimbBits(a[Len(a)])

\* 2^n as limbs
Pow2(n) == Tuple([i \in 1..((n \div 15) + 1) |-> IF i = (n \div 15) + 1 THEN 2^(n % 15) ELSE 0])

\* a * 2^n, for limbs
ShiftLeft(a, n) ==
    Trim([i \in 1..(Len(a) + (n \div 15) + 1) |->
            ((Limb(a, i - (n \div 15)) * 2^(n % 15)) % LimbBase)
            + (Limb(a, i - (n \div 15) - 1) \div 2^(15 - (n % 15)))])

\* The whole part of a / 2^n, for limbs
ShiftRight(a, n) ==
    Trim([i \in 1..(Len(a) - (n \div 15)) |->
            (a[i + (n \div 15)] \div 2^(n % 15))
            + ((Limb(a, i + (n \div 15) + 1) % 2^(n % 15)) * 2^(15 - (n % 15)))])

\* a modulo 2^n, for limbs
LowBits(a, n) ==
    Trim([i \in 1..((n \div 15) + 1) |->
            IF i <= n \div 15 THEN Limb(a, i) ELSE Limb(a, i) % 2^(n % 15)])

\* The highest limb a quotient limb can be: the two highest limbs of r
\* divided by the highest of b, for r < b * 2^15 and b with the highest bit
\* of its highest limb set.  It is at most two too many (Knuth, 4.3.1 B).
QuotLimb(r, b) ==
    IF Len(r) < Len(b) THEN 0
    ELSE IF (Limb(r, Len(b) + 1) * LimbBase + r[Len(b)]) \div b[Len(b)] < LimbBase
      THEN (Limb(r, Len(b) + 1) * LimbBase + r[Len(b)]) \div b[Len(b)]
      ELSE LimbBase - 1

\* The quotient limb c or the next one or two below, with the remainder:
\* p is b * c
DivLimb2(r, b, q, c, p) == [q |-> <<c>> \o q, r |-> LimbSub(r, p)]

DivLimb1(r, b, q, c, p) ==
    IF LimbLess(r, p) THEN DivLimb2(r, b, q, c - 1, LimbSub(p, b))
    ELSE [q |-> <<c>> \o q, r |-> LimbSub(r, p)]

DivLimb(r, b, q, c, p) ==
    IF LimbLess(r, p) THEN DivLimb1(r, b, q, c - 1, LimbSub(p, b))
    ELSE [q |-> <<c>> \o q, r |-> LimbSub(r, p)]

DivQuot(r, b, q, c) == DivLimb(r, b, q, c, LimbMul(b, Trim(<<c>>)))

\* The step of the long division for the limb x of the dividend, after the
\* steps for the higher limbs gave the quotient p.q and the remainder p.r
DivStep(p, x, b) ==
    IF p.r = <<>> /\ x = 0 THEN [q |-> <<0>> \o p.q, r |-> <<>>]
    ELSE DivQuot(<<x>> \o p.r, b, p.q, QuotLimb(<<x>> \o p.r, b))

RECURSIVE DivFrom(_, _, _)
\* Long division of the limbs of a from the i-th on by b: the limbs of a
\* that are fewer than those of b are a remainder
DivFrom(a, b, i) ==
    IF i > Len(a) - Len(b) + 1 THEN [q |-> <<>>, r |-> SubSeq(a, i, Len(a))]
    ELSE DivStep(DivFrom(a, b, i + 1), a[i], b)

DivShifted(d, s) == [q |-> Trim(d.q), r |-> ShiftRight(d.r, s)]

\* The quotient q and the remainder r of a by b > 0, for limbs: both are
\* shifted to set the highest bit of the highest limb of b
LimbDivMod(a, b) ==
    IF b = <<1>> THEN [q |-> a, r |-> <<>>]
    ELSE DivShifted(DivFrom(ShiftLeft(a, 15 - LimbBits(b[Len(b)])),
                            ShiftLeft(b, 15 - LimbBits(b[Len(b)])),
                            1),
                    15 - LimbBits(b[Len(b)]))

\* The powers of 10^4 from 10^0 to 10^20, as limbs
Myriads ==
    <<<<1>>, <<10000>>, <<24832, 3051>>, <<4096, 10570, 931>>, <<0, 24450, 7113, 284>>,
      <<0, 17952, 30901, 24122, 86>>>>

\* The digit of the decimal text s that counts 10^k, 0 where s has none
Digit(s, k) == IF 0 <= k /\ k < Len(s) THEN DigitValue[s[Len(s) - k]] ELSE 0

\* The number of the j-th four digits from the end of s
Four(s, j) ==
    1000 * Digit(s, 4 * j - 1) + 100 * Digit(s, 4 * j - 2) + 10 * Digit(s, 4 * j - 3)
    + Digit(s, 4 * j - 4)

\* What the three fours f[j], f[j + 1] and f[j + 2] of a decimal text count,
\* as limbs: each limb sums their products with the limbs of their powers
\* of 10^4
Fours(f, j) ==
    Carried([i \in 1..6 |-> f[j] * Limb(Myriads[j], i)
                            + f[j + 1] * Limb(Myriads[j + 1], i)
                            + f[j + 2] * Limb(Myriads[j + 2], i)])

\* The sum of the one or two numbers p, as limbs
LimbPair(p) == IF Len(p) = 1 THEN p[1] ELSE LimbAdd(p[1], p[2])

LimbsOf(f, n) == LimbPair(Tuple([h \in 1..(IF n <= 12 THEN 1 ELSE 2) |-> Fours(f, 3 * h - 2)]))

\* The limbs of the natural number that the decimal text s is, for at most
\* 24 digits: four digits at a time
Limbs(s) ==
    IF Len(s) <= 4 THEN Trim(<<Four(s, 1)>>)
    ELSE LimbsOf(Tuple([j \in 1..6 |-> Four(s, j)]), Len(s))

\* The four decimal digits of n < 10000
FourDigits(n) ==
    <<Digits[(n \div 1000) + 1], Digits[((n \div 100) % 10) + 1],
      Digits[((n \div 10) % 10) + 1], Digits[(n % 10) + 1]>>

\* 2^(15 * d) modulo 10^4, for d from 0 to 5
MyriadRests ==
    LET p1 == LimbBase % 10000
        p2 == (p1 * p1) % 10000
        p3 == (p2 * p1) % 10000
        p4 == (p3 * p1) % 10000
    IN <<1, p1, p2, p3, p4, (p4 * p1) % 10000>>

\* The limbs of a from the i-th on, modulo 10^4, for at most six limbs
MyriadRest(a, i) ==
    (Limb(a, i) + Limb(a, i + 1) * MyriadRests[2] + Limb(a, i + 2) * MyriadRests[3]
     + Limb(a, i + 3) * MyriadRests[4] + Limb(a, i + 4) * MyriadRests[5]
     + Limb(a, i + 5) * MyriadRests[6]) % 10000

\* The quotient of a by 10^4, for at most six limbs: the short division,
\* whose step for a limb divides what the higher limbs left, with that limb
MyriadQuot(a) ==
    Trim([i \in 1..Len(a) |-> (MyriadRest(a, i + 1) * LimbBase + a[i]) \div 10000])

\* The decimal digits of a from the j-th four from the end on, j <= 6
RECURSIVE TextFrom(_, _)
TextFrom(a, j) ==
    IF j = 6 \/ a = <<>> THEN FourDigits(MyriadRest(a, 1))
    ELSE TextFrom(MyriadQuot(a), j + 1) \o FourDigits(MyriadRest(a, 1))

\* The decimal text of the limbs a, for a number below 10^24
Text(a) == NatCanon(TextFrom(a, 1))

TwoTo32 == Str("4294967296")
TwoTo63 == Str("9223372036854775808")
MaxInt64 == Str("9223372036854775807")
MinInt64 == Str("-9223372036854775808")
MaxUint64 == Str("18446744073709551615")

\* a + b in uint64, for numbers a and b below 2^64 as text: the sum modulo
\* 2^64
Uint64Of(sum) == IF BitLen(sum) > 64 THEN LimbSub(sum, Pow2(64)) ELSE sum

Uint64Add(a, b) == Text(Uint64Of(LimbAdd(Limbs(a), Limbs(b))))

\* int64(n), for a number n below 2^64 as text: the int64 with the bits of n
Int64(n) ==
    IF NatLess(n, TwoTo63) THEN n
    ELSE <<"-">> \o Text(LimbSub(Pow2(64), Limbs(n)))

\* a + b in int, for ints a >= 0 and b >= 0 as text: the sum wraps
IntAdd(a, b) == Int64(Uint64Add(a, b))

(***************************************************************************)
(* float64.  A float64 is m * 2^e with limbs m of at most 53 bits, or 2^53; *)
(* the exponent has no limits in the model.                                *)
(***************************************************************************)
Float(m, e) == [m |-> m, e |-> e]

RoundUp(low, half, exact, odd) == LimbLess(half, low) \/ (low = half /\ (~exact \/ odd))

\* The float64 with the bits high, or the next one when the bits low that
\* were dropped round up
RoundedOf(high, low, half, exact, e) ==
    Float(IF RoundUp(low, half, exact, high[1] % 2 = 1) THEN LimbAdd(high, <<1>>)
          ELSE high, e)

\* The float64 nearest to a number with the whole part q of 55 or 56 bits,
\* a whole number iff exact, times 2^e: all but the 53 highest bits are
\* dropped, to the nearest and a tie to the even
Rounded(q, exact, drop, e) ==
    RoundedOf(ShiftRight(q, drop), LowBits(q, drop), Pow2(drop - 1), exact, e + drop)

NearestOf(d, e) == Rounded(d.q, d.r = <<>>, BitLen(d.q) - 53, e)

\* p / (q * 2^-s) at its nearest float64 times 2^-s: for q = 1 and s < 0
\* the bits of p are the quotient and the remainder
NearestAt(p, q, s) ==
    NearestOf(IF s < 0 /\ q = <<1>>
                THEN [q |-> ShiftRight(p, -s), r |-> LowBits(p, -s)]
                ELSE LimbDivMod(IF s >= 0 THEN ShiftLeft(p, s) ELSE p,
                                IF s >= 0 THEN q ELSE ShiftLeft(q, -s)),
              -s)

\* The float64 nearest to p / q, for limbs p and q > 0: the quotient is
\* computed to 55 or 56 bits
Nearest(p, q) ==
    IF p = <<>> THEN Float(<<>>, 0) ELSE NearestAt(p, q, 55 + BitLen(q) - BitLen(p))

\* float64(n), for limbs n: a number of at most 53 bits is a float64
FloatOf(n) == IF BitLen(n) <= 53 THEN Float(n, 0) ELSE Nearest(n, <<1>>)

Scaled(x, e) == Float(x.m, x.e + e)

\* x * y in float64
FloatMul(x, y) ==
    IF x.m = <<>> \/ y.m = <<>> THEN Float(<<>>, 0)
    ELSE Scaled(Nearest(LimbMul(x.m, y.m), <<1>>), x.e + y.e)

\* x / y in float64, y > 0
FloatDiv(x, y) ==
    IF x.m = <<>> THEN Float(<<>>, 0) ELSE Scaled(Nearest(x.m, y.m), x.e - y.e)

\* uint64(x): the whole part of a float64 x >= 0, as limbs
Trunc(x) == IF x.e >= 0 THEN ShiftLeft(x.m, x.e) ELSE ShiftRight(x.m, -x.e)

ParseUintOf(s, n, v) ==
    IF s = <<>> THEN [err |-> "syntax", val |-> Zero]
    ELSE IF NatLess(MaxUint64, v) THEN [err |-> "range", val |-> MaxUint64]
    ELSE IF n < Len(s) THEN [err |-> "syntax", val |-> Zero]
    ELSE [err |-> "nil", val |-> v]

\* strconv.ParseUint(s, 10, 64).  Its loop reads a byte at a time: a byte
\* that is no digit is a syntax error with the value 0; a number of more than
\* 64 bits is a range error with the value maxUint64, found at the digit that
\* makes it so and before a later byte is read.  The number only grows, so
\* the range error is found iff the digits s starts with are a number above
\* maxUint64.
ParseUint(s) ==
    ParseUintOf(s, PrefixIn(s, DigitSet), NatCanon(SubSeq(s, 1, PrefixIn(s, DigitSet))))

\* strconv.ParseInt(s, 10, 0) once ParseUint has read the digits as u: the
\* number is an int64, or a range error with the nearest int64
ParseIntOf(neg, u) ==
    IF u.err = "syntax" THEN [err |-> "syntax", val |-> Zero]
    ELSE IF ~neg /\ ~NatLess(u.val, TwoTo63) THEN [err |-> "range", val |-> MaxInt64]
    ELSE IF neg /\ NatLess(TwoTo63, u.val) THEN [err |-> "range", val |-> MinInt64]
    ELSE [err |-> "nil", val |-> IF neg THEN IntNeg(u.val) ELSE u.val]

\* strconv.ParseInt(s, 10, 0): an optional sign and the digits
ParseInt(s) ==
    IF s = <<>> THEN [err |-> "syntax", val |-> Zero]
    ELSE ParseIntOf(s[1] = "-", ParseUint(IF s[1] \in {"+", "-"} THEN Tail(s) ELSE s))

AtoiOf(r) == [ok |-> r.err = "nil", val |-> r.val]

\* strconv.Atoi: an optional sign and at least one decimal digit.  The value
\* is 0 with a syntax error and the nearest int with a range error; its path
\* for strings of less than 19 bytes gives what ParseInt gives.
Atoi(s) == AtoiOf(ParseInt(s))

RECURSIVE Split(_)
\* strings.Split(s, ":"): the pieces between the colons; one empty piece for
\* the empty string.
Split(s) ==
    IF \A i \in 1..Len(s) : s[i] # ":" THEN <<s>>
    ELSE LET k == CHOOSE i \in 1..Len(s) :
                      s[i] = ":" /\ \A j \in 1..(i - 1) : s[j] # ":"
         IN <<SubSeq(s, 1, k - 1)>> \o Split(SubSeq(s, k + 1, Len(s)))

\* os.Getenv: the empty string for a variable that is not set
Getenv(v) == IF env[v].set THEN env[v].val ELSE <<>>

\* os.Getpid()
Getpid == 7

\* const StartFD = 3
StartFD == 3

(***************************************************************************)
(* parse: the systemd environment, computed under sysdOnce                 *)
(***************************************************************************)
\* The function runs on every call: no sync.Once.
MutOnceDoEveryCall(c) ==
    /\ call[c].pc = "once"
    /\ sysdEnvParser.once # "running"
    /\ sysdEnvParser' = [sysdEnvParser EXCEPT !.once = "running"]
    /\ call' = [call EXCEPT ![c].pc = "pid"]
    /\ parses' = parses + 1
    /\ UNCHANGED <<env, sysdCalls, envWrites>>

\* p.sysdOnce.Do(func() {...}): the first caller runs the function, a caller
\* arriving while it runs waits for it, a later caller skips it.
OnceDo(c) ==
    /\ call[c].pc = "once"
    /\ sysdEnvParser.once # "running"
    /\ IF sysdEnvParser.once = "new"
         THEN /\ sysdEnvParser' = [sysdEnvParser EXCEPT !.once = "running"]
              /\ call' = [call EXCEPT ![c].pc = "pid"]
              /\ parses' = parses + 1
         ELSE /\ call' = [call EXCEPT ![c].pc = "parseRet"]
              /\ UNCHANGED <<sysdEnvParser, parses>>
    /\ UNCHANGED <<env, sysdCalls, envWrites>>

\* p.data.pid, p.err = strconv.Atoi(os.Getenv("LISTEN_PID")); on error wrap
\* it and return from the function
ParsePid(c) ==
    /\ call[c].pc = "pid"
    /\ LET r == Atoi(Getenv("LISTEN_PID"))
       IN IF r.ok
            THEN /\ sysdEnvParser' = [sysdEnvParser EXCEPT !.data.pid = r.val,
                                         !.err = "nil"]
                 /\ call' = [call EXCEPT ![c].pc = "fds"]
            ELSE /\ sysdEnvParser' = [sysdEnvParser EXCEPT !.data.pid = r.val,
                                         !.err = "invalid LISTEN_PID",
                                         !.once = "done"]
                 /\ call' = [call EXCEPT ![c].pc = "parseRet"]
    /\ UNCHANGED <<env, sysdCalls, parses, envWrites>>

\* p.data.numFds, p.err = strconv.Atoi(os.Getenv("LISTEN_FDS")); on error
\* wrap it and return from the function
ParseFds(c) ==
    /\ call[c].pc = "fds"
    /\ LET r == Atoi(Getenv("LISTEN_FDS"))
       IN IF r.ok
            THEN /\ sysdEnvParser' = [sysdEnvParser EXCEPT !.data.numFds = r.val,
                                         !.err = "nil"]
                 /\ call' = [call EXCEPT ![c].pc = "names"]
            ELSE /\ sysdEnvParser' = [sysdEnvParser EXCEPT !.data.numFds = r.val,
                                         !.err = "invalid LISTEN_FDS",
                                         !.once = "done"]
                 /\ call' = [call EXCEPT ![c].pc = "parseRet"]
    /\ UNCHANGED <<env, sysdCalls, parses, envWrites>>

\* p.data.fdNamesStr = os.Getenv("LISTEN_FDNAMES");
\* p.data.fdNames = strings.Split(p.data.fdNamesStr, ":")
ParseNames(c) ==
    /\ call[c].pc = "names"
    /\ sysdEnvParser' = [sysdEnvParser EXCEPT
                           !.data.fdNamesStr = Getenv("LISTEN_FDNAMES"),
                           !.data.fdNames = Split(Getenv("LISTEN_FDNAMES")),
                           !.once = "done"]
    /\ call' = [call EXCEPT ![c].pc = "parseRet"]
    /\ UNCHANGED <<env, sysdCalls, parses, envWrites>>

(***************************************************************************)
(* SysdConfig.GetListener                                                  *)
(***************************************************************************)
\* The bounds of the systemd model: calls of SysdConfig.GetListener in one
\* behaviour, and writes to the environment by the rest of the program.
MaxSysdCalls == 2
MaxEnvWrites == 1

\* func (s *SysdConfig) GetListener(): the call, up to parse(); the deferred
\* UnsetSystemdListenVars is registered
SysdGetListener(c, cfg) ==
    /\ call[c].pc = "none"
    /\ sysdCalls < MaxSysdCalls
    /\ call' = [call EXCEPT ![c] = [NoCall EXCEPT !.pc = "once",
                                                  !.n = sysdCalls + 1,
                                                  !.cfg = cfg]]
    /\ sysdCalls' = sysdCalls + 1
    /\ UNCHANGED <<env, sysdEnvParser, parses, envWrites>>

\* The PID is compared whatever CheckPID says.
MutPidMismatchAlwaysChecked(cfg, data) == data.pid # Num(Getpid)

\* if s.CheckPID { if envData.pid != os.Getpid() { return error } }
PidMismatch(cfg, data) == cfg.CheckPID /\ data.pid # Num(Getpid)

\* The range check off by one: idx = numFds passes.
MutIndexInRangeOffByOne(idx, numFds) == ~(IntLess(idx, Zero) \/ IntLess(numFds, idx))

\* if idx < 0 || idx >= envData.numFds { return error }
IndexInRange(idx, numFds) == ~(IntLess(idx, Zero) \/ ~IntLess(idx, numFds))

\* fmt.Sprintf("sysdfd_%d", fd): %d prints the decimal text of fd
PlaceholderName(fd) == Str("sysdfd_") \o fd

\* The name of the file for index idx (0-based): envData.fdNames[idx] if
\* idx < len(envData.fdNames), else the placeholder
NameOfIndex(idx, fdNames) ==
    IF IntLess(idx, Num(Len(fdNames))) THEN fdNames[IntVal(idx) + 1]
    ELSE PlaceholderName(IntAdd(Num(StartFD), idx))

\* The loop keeps going after a match: the last match wins.
MutFirstMatchTakesLast(fdNames, name) ==
    IF \E i \in 1..Len(fdNames) : fdNames[i] = name
      THEN (CHOOSE i \in 1..Len(fdNames) :
                fdNames[i] = name /\ \A j \in (i + 1)..Len(fdNames) : fdNames[j] # name) - 1
      ELSE -1

\* for idx, name := range envData.fdNames { if name == *s.FDName {...} }:
\* the 0-based index of the first match, -1 when the loop ends without one
FirstMatch(fdNames, name) ==
    IF \E i \in 1..Len(fdNames) : fdNames[i] = name
      THEN (CHOOSE i \in 1..Len(fdNames) :
                fdNames[i] = name /\ \A j \in 1..(i - 1) : fdNames[j] # name) - 1
      ELSE -1

NoDescriptor(err) == [fd |-> Zero, name |-> <<>>, ret |-> err]

\* makeFdListener(fd, name): os.NewFile and net.FileListener on the
\* descriptor; FileListener may fail
makeFdListener(fd, name, wrapOk) ==
    [fd |-> fd, name |-> name, ret |-> IF wrapOk THEN "nil" ELSE "FileListener error"]

\* SysdConfig.GetListener from the return of parse() to its return statement
SysdOutcome(cfg, data, err, wrapOk) ==
    IF err # "nil" THEN NoDescriptor(err)
    ELSE IF PidMismatch(cfg, data) THEN NoDescriptor("unexpected PID")
    ELSE IF cfg.FDIndex # <<>>
      THEN LET idx == cfg.FDIndex[1]
           IN IF ~IndexInRange(idx, data.numFds)
                THEN NoDescriptor("invalid fd index")
                ELSE makeFdListener(IntAdd(Num(StartFD), idx), NameOfIndex(idx, data.fdNames),
                                    wrapOk)
    ELSE IF cfg.FDName # <<>>
      THEN LET idx == FirstMatch(data.fdNames, cfg.FDName[1])
           IN IF idx < 0
                THEN NoDescriptor("fdName not found")
                ELSE makeFdListener(Num(StartFD + idx), data.fdNames[idx + 1], wrapOk)
    ELSE NoDescriptor("neither FDIndex nor FDName set")

\* return p.data, p.err in parse, and GetListener up to its return statement
SysdResolve(c, wrapOk) ==
    /\ call[c].pc = "parseRet"
    /\ LET o == SysdOutcome(call[c].cfg, sysdEnvParser.data, sysdEnvParser.err, wrapOk)
       IN call' = [call EXCEPT ![c].pc = "defer",
                               ![c].envData = sysdEnvParser.data,
                               ![c].err = sysdEnvParser.err,
                               ![c].fd = o.fd,
                               ![c].name = o.name,
                               ![c].ret = o.ret]
    /\ UNCHANGED <<env, sysdEnvParser, sysdCalls, parses, envWrites>>

\* The three statements of UnsetSystemdListenVars: the variable each one
\* unsets and where the goroutine is after it.
UnsetStage ==
    [unsetPid |-> [v |-> "LISTEN_PID", next |-> "unsetFds"],
     unsetFds |-> [v |-> "LISTEN_FDS", next |-> "unsetNames"],
     unsetNames |-> [v |-> "LISTEN_FDNAMES", next |-> "returned"]]

\* A goroutine is inside UnsetSystemdListenVars.
UnsetPcs == DOMAIN UnsetStage

\* func UnsetSystemdListenVars(): one of its three os.Unsetenv calls, each a
\* step of its own (the environment is locked per call); after the third the
\* function returns: to the caller of GetListener when it ran deferred
\* (n > 0), to the program when the program called it itself
UnsetSystemdListenVars(c) ==
    /\ call[c].pc \in UnsetPcs
    /\ env' = [env EXCEPT ![UnsetStage[call[c].pc].v] = Unset]
    /\ call' = IF call[c].pc = "unsetNames" /\ call[c].n = 0
                 THEN [call EXCEPT ![c] = NoCall]
                 ELSE [call EXCEPT ![c].pc = UnsetStage[call[c].pc].next]
    /\ UNCHANGED <<sysdEnvParser, sysdCalls, parses, envWrites>>

\* The variables are unset only when a listener is returned.
MutSysdReturnUnsetsOnSuccess(c) ==
    /\ call[c].pc = "defer"
    /\ call' = [call EXCEPT ![c].pc = IF call[c].cfg.UnsetEnv /\ call[c].ret = "nil"
                                        THEN "unsetPid" ELSE "returned"]
    /\ UNCHANGED <<env, sysdEnvParser, sysdCalls, parses, envWrites>>

\* GetListener reaches its return: if s.UnsetEnv, the deferred
\* UnsetSystemdListenVars is entered, otherwise the call returns
SysdReturn(c) ==
    /\ call[c].pc = "defer"
    /\ call' = [call EXCEPT ![c].pc = IF call[c].cfg.UnsetEnv
                                        THEN "unsetPid" ELSE "returned"]
    /\ UNCHANGED <<env, sysdEnvParser, sysdCalls, parses, envWrites>>

\* The caller has used the result and may call again.
SysdCallEnd(c) ==
    /\ call[c].pc = "returned"
    /\ call' = [call EXCEPT ![c] = NoCall]
    /\ UNCHANGED <<env, sysdEnvParser, sysdCalls, parses, envWrites>>

\* The program calls the exported UnsetSystemdListenVars() itself, on
\* goroutine c.
ProgramUnset(c) ==
    /\ call[c].pc = "none"
    /\ envWrites < MaxEnvWrites
    /\ call' = [call EXCEPT ![c] = [NoCall EXCEPT !.pc = "unsetPid"]]
    /\ envWrites' = envWrites + 1
    /\ UNCHANGED <<env, sysdEnvParser, sysdCalls, parses>>

\* The rest of the program sets or unsets one of the variables.
ProgramSetenv(v, val) ==
    /\ envWrites < MaxEnvWrites
    /\ env[v] # val
    /\ env' = [env EXCEPT ![v] = val]
    /\ envWrites' = envWrites + 1
    /\ UNCHANGED <<sysdEnvParser, call, sysdCalls, parses>>

(***************************************************************************)
(* SpecSysd: one goroutine calling SysdConfig.GetListener, one call after  *)
(* the other, in a process started with any of the environments below.    *)
(* SpecSysdOnce: two goroutines calling it concurrently while the rest of  *)
(* the program writes to the environment.                                  *)
(***************************************************************************)
PidInputs == {Unset, SetTo(Str("7")), SetTo(Str("17")), SetTo(Str("x"))}
FdsInputs == {Unset, SetTo(Str("0")), SetTo(Str("1")), SetTo(Str("2"))}
NamesInputs == {Unset, SetTo(Str("a")), SetTo(Str("a:b")),
                SetTo(Str("b:a:a"))}

EnvInputs ==
    {[LISTEN_PID |-> p, LISTEN_FDS |-> f, LISTEN_FDNAMES |-> n] :
        p \in PidInputs, f \in FdsInputs, n \in NamesInputs}

EnvValues(v) ==
    IF v = "LISTEN_PID" THEN PidInputs
    ELSE IF v = "LISTEN_FDS" THEN FdsInputs
    ELSE NamesInputs

\* FDIndex and FDName: each nil or set, alone or together.
Selectors ==
    {[FDIndex |-> <<Num(i)>>, FDName |-> <<>>] : i \in -1..2}
    \cup {[FDIndex |-> <<>>, FDName |-> <<n>>] : n \in {Str("a"), Str("c"), <<>>}}
    \cup {[FDIndex |-> <<Zero>>, FDName |-> <<(Str("c"))>>],
          [FDIndex |-> <<>>, FDName |-> <<>>]}

SysdConfigs ==
    {[FDIndex |-> s.FDIndex, FDName |-> s.FDName, CheckPID |-> p, UnsetEnv |-> u,
      IdleTimeout |-> <<>>] :
        s \in Selectors, p \in BOOLEAN, u \in BOOLEAN}

\* The configurations of the concurrent calls.
OnceConfigs ==
    {[FDIndex |-> <<Zero>>, FDName |-> <<>>, CheckPID |-> FALSE, UnsetEnv |-> u,
      IdleTimeout |-> <<>>] :
        u \in BOOLEAN}

\* The environments the concurrent calls start in.
OnceEnvInputs ==
    {[LISTEN_PID |-> p, LISTEN_FDS |-> f, LISTEN_FDNAMES |-> n] :
        p \in {Unset, SetTo(Str("7")), SetTo(Str("x"))},
        f \in {Unset, SetTo(Str("1"))},
        n \in {Unset, SetTo(Str("a"))}}

nonSysdVars == <<idleVars, globalVars, serveVars, reqVars, parseVars, listenVars, jobVars>>

\* A process that serves nothing yet.
InitNoIdler ==
    /\ InitCommon
    /\ InitNoServer
    /\ InitNoRequest
    /\ InitNoParse
    /\ InitNoListen
    /\ InitNoJobs
    /\ idler = [i \in IdlerIds |-> NoIdler]
    /\ watcher = [i \in IdlerIds |-> NoWatcher]

InitSysd ==
    /\ InitNoIdler
    /\ env \in EnvInputs
    /\ sysdEnvParser = NewParser
    /\ call = [c \in Callers |-> NoCall]
    /\ sysdCalls = 0
    /\ parses = 0
    /\ envWrites = 0

NextSysd ==
    \/ \E cfg \in SysdConfigs : SysdGetListener("c1", cfg) /\ UNCHANGED nonSysdVars
    \/ OnceDo("c1") /\ UNCHANGED nonSysdVars
    \/ ParsePid("c1") /\ UNCHANGED nonSysdVars
    \/ ParseFds("c1") /\ UNCHANGED nonSysdVars
    \/ ParseNames("c1") /\ UNCHANGED nonSysdVars
    \/ \E wrapOk \in BOOLEAN : SysdResolve("c1", wrapOk) /\ UNCHANGED nonSysdVars
    \/ SysdReturn("c1") /\ UNCHANGED nonSysdVars
    \/ UnsetSystemdListenVars("c1") /\ UNCHANGED nonSysdVars
    \/ SysdCallEnd("c1") /\ UNCHANGED nonSysdVars

SpecSysd == InitSysd /\ [][NextSysd]_vars

InitSysdOnce ==
    /\ InitNoIdler
    /\ env \in OnceEnvInputs
    /\ sysdEnvParser = NewParser
    /\ call = [c \in Callers |-> NoCall]
    /\ sysdCalls = 0
    /\ parses = 0
    /\ envWrites = 0

NextSysdOnce ==
    \/ \E c \in Callers, cfg \in OnceConfigs :
           SysdGetListener(c, cfg) /\ UNCHANGED nonSysdVars
    \/ \E c \in Callers : OnceDo(c) /\ UNCHANGED nonSysdVars
    \/ \E c \in Callers : ParsePid(c) /\ UNCHANGED nonSysdVars
    \/ \E c \in Callers : ParseFds(c) /\ UNCHANGED nonSysdVars
    \/ \E c \in Callers : ParseNames(c) /\ UNCHANGED nonSysdVars
    \/ \E c \in Callers, wrapOk \in BOOLEAN :
           SysdResolve(c, wrapOk) /\ UNCHANGED nonSysdVars
    \/ \E c \in Callers : SysdReturn(c) /\ UNCHANGED nonSysdVars
    \/ \E c \in Callers : UnsetSystemdListenVars(c) /\ UNCHANGED nonSysdVars
    \/ \E c \in Callers : SysdCallEnd(c) /\ UNCHANGED nonSysdVars
    \/ \E c \in Callers : ProgramUnset(c) /\ UNCHANGED nonSysdVars
    \/ \E v \in EnvVars : \E val \in EnvValues(v) :
           ProgramSetenv(v, val) /\ UNCHANGED nonSysdVars

SpecSysdOnce == InitSysdOnce /\ [][NextSysdOnce]_vars

(***************************************************************************)
(* Address strings: net/url and the conversions parseAddress uses.  An     *)
(* address is the sequence of its bytes, as written by Str; two addresses  *)
(* are the same string iff they are the same sequence.                     *)
(***************************************************************************)
\* The bytes 0x20..0x5F and 0x61..0x7E in their order.
PrintableLow ==
    Str(" !\"#$%&'()*+,-./0123456789:;<=>?@ABCDEFGHIJKLMNOPQRSTUVWXYZ[\\]^_")
PrintableHigh == Str("abcdefghijklmnopqrstuvwxyz{|}~")

HexUpper == Str("0123456789ABCDEF")
HexLower == Str("abcdef")

\* The byte with the value n: its character, or x and its two hex digits
\* when it is no printable ASCII character or is the grave accent.
Chr(n) ==
    IF n >= 32 /\ n <= 95 THEN PrintableLow[n - 31]
    ELSE IF n >= 97 /\ n <= 126 THEN PrintableHigh[n - 96]
    ELSE "x" \o HexUpper[(n \div 16) + 1] \o HexUpper[(n % 16) + 1]

Range(s) == {s[i] : i \in 1..Len(s)}

Lower == Range(Str("abcdefghijklmnopqrstuvwxyz"))
Upper == Range(Str("ABCDEFGHIJKLMNOPQRSTUVWXYZ"))
Letters == Lower \cup Upper
AlphaNum == Letters \cup DigitSet
HexDigits == DigitSet \cup Range(Str("abcdefABCDEF"))

\* The bytes below 0x80.
ASCII == {Chr(n) : n \in 0..127}

\* url.unhex and url.ishex
unhex(c) ==
    IF c \in DigitSet THEN DigitVal(c)
    ELSE 9 + (CHOOSE k \in 1..6 : c \in {HexLower[k], HexUpper[k + 10]})

\* strings.Index for a one-byte separator: 0 when it does not occur
IndexOf(s, sep) ==
    IF \E i \in 1..Len(s) : s[i] = sep
      THEN CHOOSE i \in 1..Len(s) : s[i] = sep /\ \A j \in 1..(i - 1) : s[j] # sep
      ELSE 0

\* strings.LastIndex for a one-byte separator: 0 when it does not occur
LastIndex(s, sep) ==
    IF \E i \in 1..Len(s) : s[i] = sep
      THEN CHOOSE i \in 1..Len(s) : s[i] = sep /\ \A j \in (i + 1)..Len(s) : s[j] # sep
      ELSE 0

\* strings.Index(s, sub): 0 when sub does not occur
IndexStr(s, sub) ==
    LET at == {i \in 1..(Len(s) - Len(sub) + 1) : SubSeq(s, i, i + Len(sub) - 1) = sub}
    IN IF at = {} THEN 0 ELSE CHOOSE i \in at : \A j \in at : i <= j

\* strings.Cut(s, sep)
Cut(s, sep) ==
    LET k == IndexOf(s, sep)
    IN IF k = 0 THEN [before |-> s, after |-> <<>>, found |-> FALSE]
       ELSE [before |-> SubSeq(s, 1, k - 1), after |-> SubSeq(s, k + 1, Len(s)),
             found |-> TRUE]

RECURSIVE SplitBy(_, _)
\* The pieces of s between the separators sep.
SplitBy(s, sep) ==
    LET c == Cut(s, sep)
    IN IF ~c.found THEN <<s>> ELSE <<c.before>> \o SplitBy(c.after, sep)

HasPrefix(s, p) == Len(s) >= Len(p) /\ SubSeq(s, 1, Len(p)) = p

\* The first pass of url.unescape: a "%" that is not followed by two hex
\* digits is an EscapeError
BadEscape(s) ==
    \E i \in 1..Len(s) :
        /\ s[i] = "%"
        /\ ~(i + 2 <= Len(s) /\ s[i + 1] \in HexDigits /\ s[i + 2] \in HexDigits)

\* The bytes a host holds unescaped: letters, digits, the sub-delims, ":",
\* "[", "]", "<", ">", the double quote and the unreserved marks.
HostBytes == AlphaNum \cup Range(Str("\"!$&'()*+,;=:[]<>")) \cup Range(Str("-_.~"))

\* url.shouldEscape(c, mode) for the modes encodeHost and encodeZone, the two
\* for which unescape asks
shouldEscape(c, mode) == c \notin HostBytes

\* The first pass of url.unescape in the modes encodeHost and encodeZone,
\* for a string whose escapes are well formed: in a host, an escape of a
\* byte below 0x80 other than %25; in a zone, an escape other than %25 and
\* %20 of a byte a host may not hold; in both, an ASCII byte a host may not
\* hold
BadHostByte(s, mode) ==
    \E i \in 1..Len(s) :
        IF s[i] = "%"
          THEN /\ SubSeq(s, i, i + 2) # Str("%25")
               /\ IF mode = "encodeHost" THEN unhex(s[i + 1]) < 8
                  ELSE /\ Chr(16 * unhex(s[i + 1]) + unhex(s[i + 2])) # " "
                       /\ shouldEscape(Chr(16 * unhex(s[i + 1]) + unhex(s[i + 2])),
                                       "encodeHost")
          ELSE s[i] \in ASCII /\ shouldEscape(s[i], mode)

RECURSIVE Decode(_, _)
\* The second pass of url.unescape: %XX is the byte XX, and "+" is a space
\* in the mode encodeQueryComponent
Decode(s, mode) ==
    IF s = <<>> THEN <<>>
    ELSE IF s[1] = "%"
      THEN <<Chr(16 * unhex(s[2]) + unhex(s[3]))>> \o Decode(SubSeq(s, 4, Len(s)), mode)
    ELSE IF s[1] = "+" /\ mode = "encodeQueryComponent"
      THEN <<" ">> \o Decode(Tail(s), mode)
    ELSE <<s[1]>> \o Decode(Tail(s), mode)

\* url.unescape(s, mode)
unescape(s, mode) ==
    IF BadEscape(s) THEN [err |-> TRUE, s |-> <<>>]
    ELSE IF mode \in {"encodeHost", "encodeZone"} /\ BadHostByte(s, mode)
      THEN [err |-> TRUE, s |-> <<>>]
    ELSE [err |-> FALSE, s |-> Decode(s, mode)]

\* The bytes below 0x20, and 0x7F.
CTLBytes == {Chr(n) : n \in 0..31} \cup {Chr(127)}

\* url.stringContainsCTLByte
stringContainsCTLByte(s) == \E i \in 1..Len(s) : s[i] \in CTLBytes

\* The bytes of a scheme after its first.
SchemeBytes == Letters \cup DigitSet \cup {"+", "-", "."}

\* url.getScheme: letters, and after the first byte digits, "+", "-", ".",
\* up to a colon; a colon at the start is an error; anything else means
\* there is no scheme
getScheme(raw) ==
    LET stops == {i \in 1..Len(raw) :
                    \/ raw[i] = ":"
                    \/ raw[i] \notin SchemeBytes
                    \/ i = 1 /\ raw[i] \notin Letters}
    IN IF stops = {} THEN [err |-> FALSE, scheme |-> <<>>, rest |-> raw]
       ELSE LET k == CHOOSE i \in stops : \A j \in stops : i <= j
            IN IF raw[k] # ":" THEN [err |-> FALSE, scheme |-> <<>>, rest |-> raw]
               ELSE IF k = 1 THEN [err |-> TRUE, scheme |-> <<>>, rest |-> raw]
               ELSE [err |-> FALSE, scheme |-> SubSeq(raw, 1, k - 1),
                     rest |-> SubSeq(raw, k + 1, Len(raw))]

\* url.validOptionalPort: empty, or a colon and digits only
validOptionalPort(port) ==
    \/ port = <<>>
    \/ /\ port[1] = ":"
       /\ \A i \in 2..Len(port) : port[i] \in DigitSet

\* The bytes of a user and a password.
UserinfoBytes == AlphaNum \cup Range(Str("-._:~!$&'()*+,;=%@"))

\* url.validUserinfo
validUserinfo(s) == \A i \in 1..Len(s) : s[i] \in UserinfoBytes

\* The host in brackets, with "]" at position i: the port after it, and the
\* zone from %25 on, which is unescaped in the mode encodeZone.
parseHostBracket(host, i) ==
    IF i = 0 THEN TRUE
    ELSE IF ~validOptionalPort(SubSeq(host, i + 1, Len(host))) THEN TRUE
    ELSE LET zone == IndexStr(SubSeq(host, 1, i - 1), Str("%25"))
         IN IF zone = 0 THEN unescape(host, "encodeHost").err
            ELSE \/ unescape(SubSeq(host, 1, zone - 1), "encodeHost").err
                 \/ unescape(SubSeq(host, zone, i - 1), "encodeZone").err
                 \/ unescape(SubSeq(host, i, Len(host)), "encodeHost").err

\* url.parseHost(host): whether it returns an error
parseHost(host) ==
    IF HasPrefix(host, Str("["))
      THEN parseHostBracket(host, LastIndex(host, "]"))
    ELSE IF /\ LastIndex(host, ":") # 0
            /\ ~validOptionalPort(SubSeq(host, LastIndex(host, ":"), Len(host)))
      THEN TRUE
    ELSE unescape(host, "encodeHost").err

\* The user and the password before the last "@": whether they are refused
parseUserinfo(userinfo) ==
    \/ ~validUserinfo(userinfo)
    \/ unescape(Cut(userinfo, ":").before, "encodeUserPassword").err
    \/ unescape(Cut(userinfo, ":").after, "encodeUserPassword").err

\* url.parseAuthority(authority): whether it returns an error
parseAuthority(authority) ==
    \/ parseHost(SubSeq(authority, LastIndex(authority, "@") + 1, Len(authority)))
    \/ /\ LastIndex(authority, "@") # 0
       /\ parseUserinfo(SubSeq(authority, 1, LastIndex(authority, "@") - 1))

URLError == [err |-> TRUE, Path |-> <<>>, RawQuery |-> <<>>]

\* u.setPath(rest): u.Path is the unescaped path, and a bad escape is an
\* error
setPath(rest, rawq) ==
    IF unescape(rest, "encodePath").err THEN URLError
    ELSE [err |-> FALSE, Path |-> unescape(rest, "encodePath").s, RawQuery |-> rawq]

\* url.parse after the "//": the authority runs up to the next "/", the
\* path is what follows
parseAfterSlashes(s, rawq) ==
    IF IndexOf(s, "/") = 0
      THEN IF parseAuthority(s) THEN URLError ELSE setPath(<<>>, rawq)
    ELSE IF parseAuthority(SubSeq(s, 1, IndexOf(s, "/") - 1)) THEN URLError
    ELSE setPath(SubSeq(s, IndexOf(s, "/"), Len(s)), rawq)

\* url.parse after the scheme and the query are cut off: an opaque URL has
\* no path; a first segment with a colon is an error; "//" not followed by a
\* third "/" starts an authority when there is no scheme
parseRest(scheme, rest, rawq) ==
    IF ~HasPrefix(rest, Str("/")) /\ scheme # <<>>
      THEN [err |-> FALSE, Path |-> <<>>, RawQuery |-> rawq]
    ELSE IF ~HasPrefix(rest, Str("/")) /\ IndexOf(Cut(rest, "/").before, ":") # 0
      THEN URLError
    ELSE IF /\ HasPrefix(rest, Str("//"))
            /\ (scheme # <<>> \/ ~HasPrefix(rest, Str("///")))
      THEN parseAfterSlashes(SubSeq(rest, 3, Len(rest)), rawq)
    ELSE setPath(rest, rawq)

\* url.parse(rawURL, false) from getScheme on
parseScheme(sch) ==
    IF sch.err THEN URLError
    ELSE parseRest(sch.scheme, Cut(sch.rest, "?").before, Cut(sch.rest, "?").after)

\* url.parse(rawURL, false): the fields parseAddress reads, u.Path and
\* u.RawQuery
parse(rawURL) ==
    IF stringContainsCTLByte(rawURL) THEN URLError
    ELSE IF rawURL = Str("*") THEN [err |-> FALSE, Path |-> Str("*"), RawQuery |-> <<>>]
    ELSE parseScheme(getScheme(rawURL))

\* url.Parse after parse: the fragment is unescaped, and a bad escape in it
\* is an error
setFragment(u, frag) ==
    IF u.err \/ unescape(frag, "encodeFragment").err THEN URLError ELSE u

\* url.Parse(rawURL): the part before the first "#" is parsed
ParseURL(raw) == setFragment(parse(Cut(raw, "#").before), Cut(raw, "#").after)

\* url.ParseQuery as u.Query() uses it: the key=value pairs between the "&",
\* in order, the key and the value unescaped; an empty pair, a pair with a
\* ";" and a pair with a bad escape are dropped without error
QueryPairs(rawq) ==
    LET segs == SplitBy(rawq, "&")
        good == SelectSeq(segs, LAMBDA seg :
                    /\ seg # <<>>
                    /\ IndexOf(seg, ";") = 0
                    /\ ~BadEscape(Cut(seg, "=").before)
                    /\ ~BadEscape(Cut(seg, "=").after))
    IN [i \in 1..Len(good) |->
          [key |-> Decode(Cut(good[i], "=").before, "encodeQueryComponent"),
           val |-> Decode(Cut(good[i], "=").after, "encodeQueryComponent")]]

\* The keys of the map u.Query() returns, q being its pairs.
QueryKeys(q) == {q[i].key : i \in 1..Len(q)}

\* u.Query()[key]: the values of the key, in order
QueryValues(q, key) ==
    LET ps == SelectSeq(q, LAMBDA p : p.key = key)
    IN [i \in 1..Len(ps) |-> ps[i].val]

OctDigits == Range(Str("01234567"))

\* The number a string of octal digits denotes, as limbs: five octal digits
\* are a limb
OctLimbs(s) ==
    Trim([i \in 1..((Len(s) + 4) \div 5) |->
            Digit(s, 5 * i - 5) + 8 * Digit(s, 5 * i - 4) + 64 * Digit(s, 5 * i - 3)
            + 512 * Digit(s, 5 * i - 2) + 4096 * Digit(s, 5 * i - 1)])

\* The number a string of octal digits denotes.
OctValue(s) == Text(OctLimbs(s))

\* The runes fmt takes for space, as their UTF-8 bytes: U+0009, U+000B to
\* U+000D, U+0020, U+0085, U+00A0, U+1680, U+2000 to U+200A, U+2028, U+2029,
\* U+202F, U+205F and U+3000.  U+000A, the newline, is none of them in Sscanf.
SpaceRunes ==
    {<<Chr(9)>>, <<Chr(11)>>, <<Chr(12)>>, <<Chr(13)>>, <<" ">>,
     <<Chr(194), Chr(133)>>, <<Chr(194), Chr(160)>>,
     <<Chr(225), Chr(154), Chr(128)>>,
     <<Chr(226), Chr(128), Chr(168)>>, <<Chr(226), Chr(128), Chr(169)>>,
     <<Chr(226), Chr(128), Chr(175)>>, <<Chr(226), Chr(129), Chr(159)>>,
     <<Chr(227), Chr(128), Chr(128)>>}
    \cup {<<Chr(226), Chr(128), Chr(n)>> : n \in 128..138}

RECURSIVE SkipSpace(_)
\* (*ss).SkipSpace of fmt: the leading space runes are dropped
SkipSpace(s) ==
    IF \E k \in 1..3 : Len(s) >= k /\ SubSeq(s, 1, k) \in SpaceRunes
      THEN SkipSpace(SubSeq(s, 1 + (CHOOSE k \in 1..3 :
                                      Len(s) >= k /\ SubSeq(s, 1, k) \in SpaceRunes),
                            Len(s)))
      ELSE s

\* The mode is read in base ten.
MutScanOctalDecimal(s) ==
    LET n == PrefixIn(SkipSpace(s), DigitSet)
    IN [ok |-> n > 0, val |-> NatCanon(SubSeq(SkipSpace(s), 1, n))]

Uint32Of(v) == IF NatLess(v, TwoTo32) THEN [ok |-> TRUE, val |-> v]
               ELSE [ok |-> FALSE, val |-> Zero]

\* The octal digits d as a uint32: strconv.ParseUint and the test of scanUint
\* refuse a number of more than 32 bits, and more than eleven octal digits
\* that count are more than 32 bits.
Uint32Octal(d) ==
    IF Len(NatCanon(d)) > 11 THEN [ok |-> FALSE, val |-> Zero]
    ELSE Uint32Of(OctValue(NatCanon(d)))

\* fmt.Sscanf(s, "%o", &mode): leading space is skipped, the octal digits
\* that follow are the number and what follows them is not read; a newline
\* first, no octal digit or a number of more than 32 bits fails
ScanOctal(s) ==
    LET n == PrefixIn(SkipSpace(s), OctDigits)
    IN IF n = 0 THEN [ok |-> FALSE, val |-> Zero]
       ELSE Uint32Octal(SubSeq(SkipSpace(s), 1, n))

\* strconv.ParseBool
ParseBool(s) ==
    IF s \in {Str("1"), Str("t"), Str("T"), Str("TRUE"), Str("true"), Str("True")}
      THEN [ok |-> TRUE, val |-> TRUE]
    ELSE IF s \in {Str("0"), Str("f"), Str("F"), Str("FALSE"), Str("false"), Str("False")}
      THEN [ok |-> TRUE, val |-> FALSE]
    ELSE [ok |-> FALSE, val |-> FALSE]

\* A time.Duration is an int64 that counts nanoseconds.
Nanosecond == One
Microsecond == Str("1000")
Millisecond == Str("1000000")
Second == Str("1000000000")
Minute == Str("60000000000")
Hour == Str("3600000000000")

\* unitMap of time.ParseDuration.  The micro sign of us is U+00B5 or U+03BC.
unitMap(unit) ==
    IF unit = Str("ns") THEN [ok |-> TRUE, unit |-> Nanosecond]
    ELSE IF unit \in {Str("us"), <<Chr(194), Chr(181), "s">>, <<Chr(206), Chr(188), "s">>}
      THEN [ok |-> TRUE, unit |-> Microsecond]
    ELSE IF unit = Str("ms") THEN [ok |-> TRUE, unit |-> Millisecond]
    ELSE IF unit = Str("s") THEN [ok |-> TRUE, unit |-> Second]
    ELSE IF unit = Str("m") THEN [ok |-> TRUE, unit |-> Minute]
    ELSE IF unit = Str("h") THEN [ok |-> TRUE, unit |-> Hour]
    ELSE [ok |-> FALSE, unit |-> Zero]

LeadingDigits(s, n, x) ==
    [x |-> IF NatLess(TwoTo63, x) THEN <<>> ELSE Limbs(x), n |-> n,
     rem |-> SubSeq(s, n + 1, Len(s)), err |-> NatLess(TwoTo63, x)]

\* leadingInt of package time: the digits s starts with as the number x, n
\* of them, and the rest of s.  The loop fails once x is above 2^63; x only
\* grows, so it fails iff the number of all the digits is above 2^63.
leadingInt(s) ==
    LeadingDigits(s, PrefixIn(s, DigitSet), NatCanon(SubSeq(s, 1, PrefixIn(s, DigitSet))))

\* 10^k as limbs, k <= 22
TenTo(k) == Limbs(One \o [i \in 1..k |-> "0"])

RECURSIVE Scale(_)
\* scale of leadingFraction after k digits: 1 multiplied k times by 10, in
\* float64.  The products up to 10^22 are exact: 5^22 has no more than 53
\* bits.
Scale(k) ==
    IF k <= 22 THEN FloatOf(TenTo(k)) ELSE FloatMul(Scale(k - 1), Float(<<10>>, 0))

\* The digits of a fraction that leadingFraction takes into x: the loop stops
\* taking digits at the first one that brings x above 2^63.
Taken(s, n) ==
    Cardinality({j \in 1..n : ~NatLess(TwoTo63, NatCanon(SubSeq(s, 1, j)))})

FractionDigits(s, n, k) ==
    [x |-> Limbs(NatCanon(SubSeq(s, 1, k))), scale |-> Scale(k), n |-> n,
     rem |-> SubSeq(s, n + 1, Len(s))]

\* leadingFraction of package time: the digits s starts with, n of them, as
\* the number x over scale, and the rest of s
leadingFraction(s) ==
    FractionDigits(s, PrefixIn(s, DigitSet), Taken(s, PrefixIn(s, DigitSet)))

\* No fraction: f = 0 and scale = 1.
NoFraction(s) == [x |-> <<>>, scale |-> Float(<<1>>, 0), n |-> 0, rem |-> s]

DurationError == [ok |-> FALSE, val |-> Zero]

\* if v > 1<<63 { error }, for limbs v
DurationChecked(v) ==
    IF LimbLess(Pow2(63), v) THEN [ok |-> FALSE, val |-> <<>>] ELSE [ok |-> TRUE, val |-> v]

\* if f > 0 { v += uint64(float64(f) * (float64(unit) / scale)); ... }
DurationFraction(v, f, scale, unit) ==
    IF f = <<>> THEN [ok |-> TRUE, val |-> v]
    ELSE DurationChecked(LimbAdd(v, Trunc(FloatMul(FloatOf(f),
                                                    FloatDiv(FloatOf(unit), scale)))))

\* The units of unitMap as limbs, and 1<<63/unit for each of them
Units == <<Nanosecond, Microsecond, Millisecond, Second, Minute, Hour>>
UnitLimbs == Tuple([i \in 1..6 |-> Limbs(Units[i])])
UnitLimits == Tuple([i \in 1..6 |-> LimbDivMod(Pow2(63), UnitLimbs[i]).q])
UnitLimit(unit) == UnitLimits[CHOOSE i \in 1..6 : UnitLimbs[i] = unit]

\* if v > 1<<63/unit { error }; v *= unit; and the fraction: the term with the
\* integer v, the fraction f over scale and the unit, all limbs
DurationTerm(v, f, scale, unit) ==
    IF LimbLess(UnitLimit(unit), v) THEN [ok |-> FALSE, val |-> <<>>]
    ELSE DurationFraction(LimbMul(v, unit), f, scale, unit)

\* d + v in uint64, for limbs d and v below 2^64
Uint64Sum(d, v) == Uint64Of(LimbAdd(d, v))

\* The term t of the loop, with what of s is left after it
DurationRest(t, rem) == [ok |-> t.ok, val |-> t.val, rem |-> rem]

DurationUnitOf(v, f, scale, tail, nu, u) ==
    IF nu = 0 \/ ~u.ok THEN [ok |-> FALSE, val |-> <<>>, rem |-> <<>>]
    ELSE DurationRest(DurationTerm(v, f, scale, UnitLimbs[CHOOSE i \in 1..6 : Units[i] = u.unit]),
                      SubSeq(tail, nu + 1, Len(tail)))

\* The unit of the term with the integer v and the fraction f over scale:
\* the bytes up to the next digit or point, a key of unitMap
DurationUnit(v, f, scale, tail) ==
    DurationUnitOf(v, f, scale, tail, PrefixNotIn(tail, DigitSet \cup {"."}),
                   unitMap(SubSeq(tail, 1, PrefixNotIn(tail, DigitSet \cup {"."}))))

\* The number of a term, read as whole and, after a point, as frac: a digit
\* is needed in one of the two places
DurationNumber(whole, frac) ==
    IF whole.n = 0 /\ frac.n = 0 THEN [ok |-> FALSE, val |-> <<>>, rem |-> <<>>]
    ELSE DurationUnit(whole.x, frac.x, frac.scale, frac.rem)

DurationPoint(whole) ==
    IF whole.err THEN [ok |-> FALSE, val |-> <<>>, rem |-> <<>>]
    ELSE DurationNumber(whole, IF whole.rem # <<>> /\ whole.rem[1] = "."
                                 THEN leadingFraction(Tail(whole.rem))
                                 ELSE NoFraction(whole.rem))

\* The term s starts with: it starts with a digit or a point
DurationHead(s) ==
    IF s[1] \notin DigitSet \cup {"."} THEN [ok |-> FALSE, val |-> <<>>, rem |-> <<>>]
    ELSE DurationPoint(leadingInt(s))

RECURSIVE DurationTerms(_, _)
\* d += v in uint64 for the term t; if d > 1<<63 { error }; and the terms
\* after it
DurationNext(d, rem) ==
    IF ~DurationChecked(d).ok THEN [ok |-> FALSE, val |-> <<>>] ELSE DurationTerms(rem, d)

DurationSum(d, t) ==
    IF ~t.ok THEN [ok |-> FALSE, val |-> <<>>] ELSE DurationNext(Uint64Sum(d, t.val), t.rem)

\* The loop of time.ParseDuration over the terms of s, with the limbs d
\* summed so far
DurationTerms(s, d) ==
    IF s = <<>> THEN [ok |-> TRUE, val |-> d] ELSE DurationSum(d, DurationHead(s))

\* The end of time.ParseDuration with the sum of the terms: -d, or d when it
\* is below 2^63
DurationResult(neg, r) ==
    IF ~r.ok THEN DurationError
    ELSE IF neg THEN [ok |-> TRUE, val |-> IntNeg(Text(r.val))]
    ELSE IF ~LimbLess(r.val, Pow2(63)) THEN DurationError
    ELSE [ok |-> TRUE, val |-> Text(r.val)]

\* time.ParseDuration: [-+]?([0-9]*(\.[0-9]*)?[a-z]+)+ or "0" after the sign
ParseDuration(s) ==
    LET signed == Len(s) > 0 /\ s[1] \in {"+", "-"}
        body == IF signed THEN Tail(s) ELSE s
    IN IF body = Str("0") THEN [ok |-> TRUE, val |-> Zero]
       ELSE IF body = <<>> THEN DurationError
       ELSE DurationResult(signed /\ s[1] = "-", DurationTerms(body, <<>>))

(***************************************************************************)
(* parseAddress                                                            *)
(***************************************************************************)
\* var DefaultUnixSocketConfig: SocketMode 0666, RemoveExisting true
DefaultUnixSocketConfig ==
    [SocketPath |-> <<>>, SocketMode |-> OctValue(Str("666")),
     RemoveExisting |-> TRUE]

\* var DefaultSysdConfig: CheckPID true, UnsetEnv true
DefaultSysdConfig == [NoCfg EXCEPT !.CheckPID = TRUE, !.UnsetEnv = TRUE]

\* return TCP, nil, nil, nil
TCPAddress == [addrType |-> "TCP", usc |-> <<>>, sysc |-> <<>>, err |-> "nil"]

\* The body of the loop over u.Query() in the unix branch, for one key
UnixKey(cfg, key, val) ==
    IF Len(val) # 1 THEN [cfg |-> cfg, err |-> "Multiple"]
    ELSE IF key = Str("path")
      THEN [cfg |-> [cfg EXCEPT !.SocketPath = val[1]], err |-> "nil"]
    ELSE IF key = Str("mode")
      THEN IF ScanOctal(val[1]).ok
             THEN [cfg |-> [cfg EXCEPT !.SocketMode = ScanOctal(val[1]).val], err |-> "nil"]
             ELSE [cfg |-> cfg, err |-> "Bad mode"]
    ELSE IF key = Str("remove_existing")
      THEN IF ParseBool(val[1]).ok
             THEN [cfg |-> [cfg EXCEPT !.RemoveExisting = ParseBool(val[1]).val],
                   err |-> "nil"]
             ELSE [cfg |-> cfg, err |-> "Bad remove_existing"]
    ELSE [cfg |-> cfg, err |-> "Bad option"]

\* The body of the loop over u.Query() in the sysd branch, for one key
SysdKey(cfg, key, val) ==
    IF Len(val) # 1 THEN [cfg |-> cfg, err |-> "Multiple"]
    ELSE IF key = Str("name")
      THEN [cfg |-> [cfg EXCEPT !.FDName = <<val[1]>>], err |-> "nil"]
    ELSE IF key = Str("idx")
      THEN IF Atoi(val[1]).ok
             THEN [cfg |-> [cfg EXCEPT !.FDIndex = <<Atoi(val[1]).val>>], err |-> "nil"]
             ELSE [cfg |-> cfg, err |-> "Bad idx"]
    ELSE IF key = Str("check_pid")
      THEN IF ParseBool(val[1]).ok
             THEN [cfg |-> [cfg EXCEPT !.CheckPID = ParseBool(val[1]).val], err |-> "nil"]
             ELSE [cfg |-> cfg, err |-> "Bad check_pid"]
    ELSE IF key = Str("unset_env")
      THEN IF ParseBool(val[1]).ok
             THEN [cfg |-> [cfg EXCEPT !.UnsetEnv = ParseBool(val[1]).val], err |-> "nil"]
             ELSE [cfg |-> cfg, err |-> "Bad unset_env"]
    ELSE IF key = Str("idle_timeout")
      THEN IF ParseDuration(val[1]).ok
             THEN [cfg |-> [cfg EXCEPT !.IdleTimeout = <<ParseDuration(val[1]).val>>],
                   err |-> "nil"]
             ELSE [cfg |-> cfg, err |-> "Bad idle_timeout"]
    ELSE [cfg |-> cfg, err |-> "Bad option"]

RECURSIVE UnixLoop(_, _, _)
RECURSIVE UnixLoopStep(_, _, _)
\* for key, val := range u.Query() {...} of the unix branch, the keys taken
\* in the order ord, q being the pairs of u.Query(); the first error ends it
UnixLoop(q, ord, cfg) ==
    IF ord = <<>> THEN [cfg |-> cfg, err |-> "nil"]
    ELSE UnixLoopStep(q, ord, UnixKey(cfg, Head(ord), QueryValues(q, Head(ord))))

\* One pass of the loop gave r: an error returns, otherwise the next key.
UnixLoopStep(q, ord, r) ==
    IF r.err # "nil" THEN r ELSE UnixLoop(q, Tail(ord), r.cfg)

\* The loop is left after its first pass, whatever it gave.
MutSysdLoopStepReturns(q, ord, r) == r

RECURSIVE SysdLoop(_, _, _)
RECURSIVE SysdLoopStep(_, _, _)
\* for key, val := range u.Query() {...} of the sysd branch
SysdLoop(q, ord, cfg) ==
    IF ord = <<>> THEN [cfg |-> cfg, err |-> "nil"]
    ELSE SysdLoopStep(q, ord, SysdKey(cfg, Head(ord), QueryValues(q, Head(ord))))

\* One pass of the loop gave r: an error returns, otherwise the next key.
SysdLoopStep(q, ord, r) ==
    IF r.err # "nil" THEN r ELSE SysdLoop(q, Tail(ord), r.cfg)

\* Only a missing selector is refused: idx and name together pass.
MutNotExactlyOneOnlyNeither(cfg) == cfg.FDIndex = <<>> /\ cfg.FDName = <<>>

\* if (sysc.FDIndex == nil) == (sysc.FDName == nil) { error }
NotExactlyOne(cfg) == (cfg.FDIndex = <<>>) = (cfg.FDName = <<>>)

\* The unix branch with no test of the path.
MutUnixAddressAnyPath(r) ==
    [addrType |-> "UnixSocket", usc |-> <<r.cfg>>, sysc |-> <<>>, err |-> r.err]

\* The unix branch after its loop, which gave r: the path must be set.
UnixAddress(r) ==
    [addrType |-> "UnixSocket", usc |-> <<r.cfg>>, sysc |-> <<>>,
     err |-> IF r.err # "nil" THEN r.err
             ELSE IF r.cfg.SocketPath = <<>> THEN "Missing path"
             ELSE "nil"]

\* The sysd branch after its loop, which gave r.
SysdAddress(r) ==
    [addrType |-> "SystemdFD", usc |-> <<>>, sysc |-> <<r.cfg>>,
     err |-> IF r.err # "nil" THEN r.err
             ELSE IF NotExactlyOne(r.cfg) THEN "Exactly only one of name and idx"
             ELSE "nil"]

\* parseAddress after u, err := url.Parse(addr), q being the pairs of
\* u.Query()
parseAddressOf(u, q, ord) ==
    IF u.err THEN TCPAddress
    ELSE IF u.Path = Str("unix")
      THEN UnixAddress(UnixLoop(q, ord, DefaultUnixSocketConfig))
    ELSE IF u.Path = Str("sysd")
      THEN SysdAddress(SysdLoop(q, ord, DefaultSysdConfig))
    ELSE TCPAddress


\* The orders in which a range over a map with these keys may visit them.
Orders(keys) ==
    {ord \in [1..Cardinality(keys) -> keys] :
        \A i, j \in 1..Cardinality(keys) : ord[i] = ord[j] => i = j}

\* What parseAddress(addr) may return after url.Parse gave u and u.Query()
\* the pairs q: one result for every order of the range over the map.
parseAddressResults(u, q) == {parseAddressOf(u, q, ord) : ord \in Orders(QueryKeys(q))}

\* func parseAddress(addr): what it may return
parseAddress(a) == parseAddressResults(ParseURL(a), QueryPairs(ParseURL(a).RawQuery))

(***************************************************************************)
(* SpecParse: GetListener(addr) up to the listener it asks for, for the    *)
(* addresses below: unix?... and sysd?... with up to MaxPairs key=value    *)
(* pairs, and addresses that are not of these two forms.                   *)
(***************************************************************************)
MaxPairs == 2

Pair(k, v) == [key |-> k, val |-> v]

UnixPool ==
    {Pair(Str("path"), Str("/a")), Pair(Str("path"), <<>>),
     Pair(Str("path"), Str("%zz")), Pair(Str("path"), Str("/b;c")),
     Pair(Str("mode"), Str("600")), Pair(Str("mode"), Str("8")),
     Pair(Str("mode"), Str("7x")),
     Pair(Str("remove_existing"), Str("false")), Pair(Str("remove_existing"), Str("T")),
     Pair(Str("remove_existing"), Str("x")),
     Pair(Str("foo"), Str("1")), Pair(Str("%zz"), Str("1")),
     Pair(Str("path"), Str("%2Fa")), Pair(Str("path"), Str("a+b")),
     Pair(Str("p%61th"), Str("/a"))}

SysdPool ==
    {Pair(Str("idx"), Str("1")), Pair(Str("idx"), Str("-1")), Pair(Str("idx"), Str("x")),
     Pair(Str("idx"), Str("9223372036854775808")),
     Pair(Str("idle_timeout"), Str("2562048h")),
     Pair(Str("name"), Str("a")), Pair(Str("name"), <<>>),
     Pair(Str("name"), Str("%zz")),
     Pair(Str("check_pid"), Str("false")),
     Pair(Str("unset_env"), Str("0")), Pair(Str("unset_env"), Str("x")),
     Pair(Str("idle_timeout"), Str("30m")),
     Pair(Str("idle_timeout"), Str("1h30m")),
     Pair(Str("idle_timeout"), Str("0")), Pair(Str("idle_timeout"), Str("-1s")),
     Pair(Str("idle_timeout"), Str("5")),
     Pair(Str("idle_timeout"), Str("1.5s")), Pair(Str("idle_timeout"), Str("1us")),
     Pair(Str("foo"), Str("1"))}

\* Addresses whose path is neither unix nor sysd, and addresses that are no
\* URL.
OtherAddrs ==
    {<<>>,
     Str(":80"),
     Str("localhost:80"),
     Str("1.2:80"),
     Str("[::1]:80"),
     Str("unix:80"),
     Str("/unix?path=/a"),
     Str("unix/?path=/a"),
     Str("UNIX?path=/a"),
     Str("unixx?path=/a"),
     Str("http://unix?path=/a"),
     Str("%zz"),
     Str("sysd%zz?idx=1"),
     Str("unix?path=/a#%zz"),
     Str("//a:b"),
     Str("*")}

SeqsUpTo(pool, n) == UNION {[1..k -> pool] : k \in 0..n}

Givens ==
    {[path |-> Str("unix"), pairs |-> ps] : ps \in SeqsUpTo(UnixPool, MaxPairs)}
    \cup {[path |-> Str("sysd"), pairs |-> ps] : ps \in SeqsUpTo(SysdPool, MaxPairs)}
    \cup {[path |-> a, pairs |-> <<>>] : a \in OtherAddrs}
    \cup {[path |-> Str("%75nix"), pairs |-> <<>>],
          [path |-> Str("%75nix"), pairs |-> <<Pair(Str("path"), Str("/a"))>>],
          [path |-> Str("s%79sd"), pairs |-> <<Pair(Str("idx"), Str("1"))>>]}

RECURSIVE JoinPairs(_)
\* key=value&key=value...
JoinPairs(ps) ==
    IF ps = <<>> THEN <<>>
    ELSE Head(ps).key \o Str("=") \o Head(ps).val
         \o (IF Len(ps) = 1 THEN <<>> ELSE Str("&") \o JoinPairs(Tail(ps)))

\* The address string: the path, and "?" and the pairs if there are any.
Render(g) ==
    g.path \o (IF g.pairs = <<>> THEN <<>> ELSE Str("?") \o JoinPairs(g.pairs))

\* net.Listen is always given the address: no default for the empty string.
MutListenAddrNoDefault(a) == a

\* if addr == "" { addr = ":http" }
ListenAddr(a) == IF a = <<>> THEN Str(":http") ELSE a

\* What GetListener holds once parseAddress has returned r.
Resolved(r) ==
    [done |-> TRUE, addrType |-> r.addrType, usc |-> r.usc, sysc |-> r.sysc,
     err |-> r.err]

\* addrType, unixSocketConfig, sysdConfig, perr := parseAddress(addr)
ParseAddress ==
    /\ ~resolved.done
    /\ \E r \in parseAddress(addr) : resolved' = Resolved(r)
    /\ UNCHANGED <<addr, given, outcome>>

\* The error of parseAddress is not looked at: the configuration it left
\* decides.
MutGetListenerDispatchIgnoresError ==
    /\ resolved.done
    /\ ~outcome.done
    /\ outcome' =
         IF resolved.usc # <<>>
           THEN [done |-> TRUE, addrType |-> resolved.addrType, listen |-> "unix",
                 on |-> resolved.usc[1].SocketPath, err |-> "nil"]
         ELSE IF resolved.sysc # <<>>
           THEN [done |-> TRUE, addrType |-> resolved.addrType, listen |-> "sysd",
                 on |-> <<>>, err |-> "nil"]
         ELSE [done |-> TRUE, addrType |-> "TCP", listen |-> "tcp",
               on |-> ListenAddr(addr), err |-> "nil"]
    /\ UNCHANGED <<addr, given, resolved>>

\* GetListener after parseAddress: the error, or the listener it asks for:
\* unixSocketConfig.GetListener(), sysdConfig.GetListener() or
\* net.Listen("tcp", addr)
GetListenerDispatch ==
    /\ resolved.done
    /\ ~outcome.done
    /\ outcome' =
         IF resolved.err # "nil"
           THEN [done |-> TRUE, addrType |-> "Unknown", listen |-> "none",
                 on |-> <<>>, err |-> resolved.err]
         ELSE IF resolved.usc # <<>>
           THEN [done |-> TRUE, addrType |-> resolved.addrType, listen |-> "unix",
                 on |-> resolved.usc[1].SocketPath, err |-> "nil"]
         ELSE IF resolved.sysc # <<>>
           THEN [done |-> TRUE, addrType |-> resolved.addrType, listen |-> "sysd",
                 on |-> <<>>, err |-> "nil"]
         ELSE [done |-> TRUE, addrType |-> "TCP", listen |-> "tcp",
               on |-> ListenAddr(addr), err |-> "nil"]
    /\ UNCHANGED <<addr, given, resolved>>

nonParseVars == <<idleVars, globalVars, serveVars, reqVars, sysdVars, listenVars, jobVars>>

\* GetListener(addr) is called with one of the addresses.
InitParse ==
    /\ InitCommon
    /\ InitNoServer
    /\ InitNoRequest
    /\ InitNoSysd
    /\ InitNoListen
    /\ InitNoJobs
    /\ idler = [i \in IdlerIds |-> NoIdler]
    /\ watcher = [i \in IdlerIds |-> NoWatcher]
    /\ given \in Givens
    /\ addr = Render(given)
    /\ resolved = NoResolved
    /\ outcome = NoOutcome

NextParse ==
    \/ ParseAddress /\ UNCHANGED nonParseVars
    \/ GetListenerDispatch /\ UNCHANGED nonParseVars

SpecParse == InitParse /\ [][NextParse]_vars

(***************************************************************************)
(* UnixSocketConfig.GetListener.  The file system is the collaborator:     *)
(* os.Remove deletes what is at the path, reports that nothing is there,   *)
(* or fails otherwise; net.Listen("unix", path) fails when the path is     *)
(* occupied and may fail otherwise; os.Chmod may fail.                      *)
(***************************************************************************)
RemoveResults == {"nil", "ErrNotExist", "EPERM"}

\* func (u *UnixSocketConfig) GetListener(): the call, with u = cfg
UnixGetListener(cfg) ==
    /\ sock.pc = "none"
    /\ sock' = [sock EXCEPT !.cfg = cfg,
                            !.pc = IF cfg.RemoveExisting THEN "remove" ELSE "listen"]

\* Every error of os.Remove aborts, the report that nothing is there too.
MutUnixRemoveAnyErrorAborts(res) ==
    /\ sock.pc = "remove"
    /\ res = "nil" => sock.file # "absent"
    /\ res = "ErrNotExist" => sock.file = "absent"
    /\ sock' = IF res = "nil"
                 THEN [sock EXCEPT !.pc = "listen", !.file = "absent",
                                   !.removed = @ + 1]
                 ELSE [sock EXCEPT !.pc = "returned", !.ret = res]

\* if err := os.Remove(u.SocketPath); err != nil && !errors.Is(err,
\* fs.ErrNotExist) { return nil, err }
UnixRemove(res) ==
    /\ sock.pc = "remove"
    /\ res = "nil" => sock.file # "absent"
    /\ res = "ErrNotExist" => sock.file = "absent"
    /\ sock' = IF res = "nil"
                 THEN [sock EXCEPT !.pc = "listen", !.file = "absent",
                                   !.removed = @ + 1]
               ELSE IF res = "ErrNotExist"
                 THEN [sock EXCEPT !.pc = "listen"]
                 ELSE [sock EXCEPT !.pc = "returned", !.ret = res]

\* l, err := net.Listen("unix", u.SocketPath); if err != nil { return nil, err }
UnixListen(ok) ==
    /\ sock.pc = "listen"
    /\ sock' = IF sock.file # "absent"
                 THEN [sock EXCEPT !.pc = "returned", !.ret = "EADDRINUSE"]
               ELSE IF ok
                 THEN [sock EXCEPT !.pc = "chmod", !.file = "socket", !.l = "open",
                                   !.binds = @ + 1]
                 ELSE [sock EXCEPT !.pc = "returned", !.ret = "EACCES"]

\* if err = os.Chmod(u.SocketPath, u.SocketMode); err != nil { return nil, err };
\* return l, nil
UnixChmod(ok) ==
    /\ sock.pc = "chmod"
    /\ sock' = [sock EXCEPT !.pc = "returned",
                            !.ret = IF ok THEN "nil" ELSE "chmod error"]

(***************************************************************************)
(* SpecListen: serve(addr, h, certFile, keyFile) from its call to its      *)
(* return, with GetListener and the listener it asks for.                  *)
(***************************************************************************)
\* The process is started by systemd with two descriptors, a and b.
SysdEnv ==
    [LISTEN_PID |-> SetTo(Itoa(Getpid)), LISTEN_FDS |-> SetTo(Str("2")),
     LISTEN_FDNAMES |-> SetTo(Str("a:b"))]

\* ctx.Listener, ctx.AddressType, cfg, err = GetListener(addr), up to the
\* return of parseAddress
ListenParse ==
    /\ srv.pc = "parse"
    /\ ParseAddress
    /\ srv' = [srv EXCEPT !.pc = "dispatch"]
    /\ UNCHANGED <<sock, idleVars, globalVars, serveVars, reqVars, sysdVars, jobVars>>

\* if perr != nil { return nil, Unknown, nil, perr }, and serve's
\* if err != nil { return nil, err }
ListenFailed ==
    /\ srv.pc = "dispatch"
    /\ GetListenerDispatch
    /\ outcome'.listen = "none"
    /\ srv' = [srv EXCEPT !.pc = "returned", !.ret = outcome'.err]
    /\ UNCHANGED <<sock, idleVars, globalVars, serveVars, reqVars, sysdVars, jobVars>>

\* listener, err := unixSocketConfig.GetListener(): the call
ListenUnix ==
    /\ srv.pc = "dispatch"
    /\ GetListenerDispatch
    /\ outcome'.listen = "unix"
    /\ UnixGetListener(resolved.usc[1])
    /\ srv' = [srv EXCEPT !.pc = "unix"]
    /\ UNCHANGED <<idleVars, globalVars, serveVars, reqVars, sysdVars, jobVars>>

\* listener, err := sysdConfig.GetListener(): the call
ListenSysd ==
    /\ srv.pc = "dispatch"
    /\ GetListenerDispatch
    /\ outcome'.listen = "sysd"
    /\ SysdGetListener("c1", resolved.sysc[1])
    /\ srv' = [srv EXCEPT !.pc = "sysd"]
    /\ UNCHANGED <<sock, idleVars, globalVars, serveVars, reqVars, jobVars>>

\* listener, err := net.Listen("tcp", addr); return listener, TCP, nil, err
ListenTcp(ok) ==
    /\ srv.pc = "dispatch"
    /\ GetListenerDispatch
    /\ outcome'.listen = "tcp"
    /\ srv' = IF ok THEN [srv EXCEPT !.pc = "start", !.tcp = "open"]
                    ELSE [srv EXCEPT !.pc = "returned", !.ret = "listen error"]
    /\ UNCHANGED <<sock, idleVars, globalVars, serveVars, reqVars, sysdVars, jobVars>>

\* What a step of UnixSocketConfig.GetListener leaves alone.
nonSockVars == <<srv, idleVars, globalVars, serveVars, reqVars, sysdVars, parseVars,
                 jobVars>>

\* What a step of SysdConfig.GetListener leaves alone.
nonCallVars == <<srv, sock, idleVars, globalVars, serveVars, reqVars, parseVars,
                 jobVars>>

\* What the listener call returned to GetListener.
ListenerErr ==
    IF srv.pc = "unix" THEN sock.ret ELSE call["c1"].ret

\* if err != nil { return nil, Unknown, nil, err }; return listener, addrType,
\* cfg, nil, and serve's if err != nil { return nil, err }
ListenReturned ==
    /\ \/ srv.pc = "unix" /\ sock.pc = "returned"
       \/ srv.pc = "sysd" /\ call["c1"].pc = "returned"
    /\ srv' = IF ListenerErr = "nil"
                THEN [srv EXCEPT !.pc = "start"]
                ELSE [srv EXCEPT !.pc = "returned", !.ret = ListenerErr]
    /\ UNCHANGED <<sock, idleVars, globalVars, serveVars, reqVars, sysdVars, parseVars,
                   jobVars>>

\* ctx.AddressType == SystemdFD && ctx.SysdConfig.IdleTimeout != nil
WithIdleTimeout ==
    /\ resolved.addrType = "SystemdFD"
    /\ resolved.sysc[1].IdleTimeout # <<>>

\* serve that installs h itself on both branches: with an idle timeout the
\* idler is created and the goroutines are started, but no request calls
\* Tick.
MutServeStartUnwrapped(c, a) ==
    /\ srv.pc = "start"
    /\ srv' = [srv EXCEPT !.pc = "returned", !.ret = "nil", !.handle = TRUE,
                          !.h = a, !.handler = Unwrapped(a)]
    /\ serveTask' = [pc |-> "serving", err |-> "none", cert |-> c]
    /\ IF WithIdleTimeout
         THEN /\ CreateIdler(TheIdler, resolved.sysc[1].IdleTimeout[1])
              /\ idleMode' = TRUE
              /\ raceTask' = [NoRace EXCEPT !.pc = "select"]
         ELSE UNCHANGED <<idler, watcher, idleMode, raceTask>>
    /\ UNCHANGED <<now, thread, waiter, calls, open, misuse, quiesced>>
    /\ UNCHANGED <<inShutdown, client, doneSent, firstEvt>>
    /\ UNCHANGED <<sock, globalVars, reqVars, sysdVars, parseVars, jobVars>>

\* serve after GetListener: errChan is made; with an idle timeout the idler
\* is created, the server gets the wrapped handler and both goroutines are
\* started; without one the server gets h and the serving goroutine alone is
\* started; return &ctx, nil
ServeStart(c, a) ==
    /\ srv.pc = "start"
    /\ srv' = [srv EXCEPT !.pc = "returned", !.ret = "nil", !.handle = TRUE,
                          !.h = a,
                          !.handler = ServerHandler(WithIdleTimeout, TheIdler, a)]
    /\ serveTask' = [pc |-> "serving", err |-> "none", cert |-> c]
    /\ IF WithIdleTimeout
         THEN /\ CreateIdler(TheIdler, resolved.sysc[1].IdleTimeout[1])
              /\ idleMode' = TRUE
              /\ raceTask' = [NoRace EXCEPT !.pc = "select"]
         ELSE UNCHANGED <<idler, watcher, idleMode, raceTask>>
    /\ UNCHANGED <<now, thread, waiter, calls, open, misuse, quiesced>>
    /\ UNCHANGED <<inShutdown, client, doneSent, firstEvt>>
    /\ UNCHANGED <<sock, globalVars, reqVars, sysdVars, parseVars, jobVars>>

\* serve(addr, ...) is called: for a unix address something may be at the
\* path already; for a sysd address the environment is the one systemd sets.
InitListen ==
    /\ InitCommon
    /\ InitNoServer
    /\ InitNoRequest
    /\ InitNoJobs
    /\ idler = [i \in IdlerIds |-> NoIdler]
    /\ watcher = [i \in IdlerIds |-> NoWatcher]
    /\ given \in Givens
    /\ addr = Render(given)
    /\ resolved = NoResolved
    /\ outcome = NoOutcome
    /\ env = SysdEnv
    /\ sysdEnvParser = NewParser
    /\ call = [c \in Callers |-> NoCall]
    /\ sysdCalls = 0
    /\ parses = 0
    /\ envWrites = 0
    /\ sock \in {[NoSock EXCEPT !.file = f] :
                    f \in IF ParseURL(addr).Path = Str("unix") THEN {"absent", "file"}
                                                      ELSE {"absent"}}
    /\ srv = [NoSrv EXCEPT !.pc = "parse"]

NextListen ==
    \/ ListenParse
    \/ ListenFailed
    \/ ListenUnix
    \/ ListenSysd
    \/ \E ok \in BOOLEAN : ListenTcp(ok)
    \/ \E res \in RemoveResults : UnixRemove(res) /\ UNCHANGED nonSockVars
    \/ \E ok \in BOOLEAN : UnixListen(ok) /\ UNCHANGED nonSockVars
    \/ \E ok \in BOOLEAN : UnixChmod(ok) /\ UNCHANGED nonSockVars
    \/ OnceDo("c1") /\ UNCHANGED nonCallVars
    \/ ParsePid("c1") /\ UNCHANGED nonCallVars
    \/ ParseFds("c1") /\ UNCHANGED nonCallVars
    \/ ParseNames("c1") /\ UNCHANGED nonCallVars
    \/ \E wrapOk \in BOOLEAN : SysdResolve("c1", wrapOk) /\ UNCHANGED nonCallVars
    \/ SysdReturn("c1") /\ UNCHANGED nonCallVars
    \/ UnsetSystemdListenVars("c1") /\ UNCHANGED nonCallVars
    \/ ListenReturned
    \/ \E c \in CertFiles, a \in HandlerArgs : ServeStart(c, a)

SpecListen == InitListen /\ [][NextListen]_vars

(***************************************************************************)
(* SpecJobs: the idler of Spec with the Enter and Exit calls that have     *)
(* returned counted, and the time of the last Exit kept.                   *)
(***************************************************************************)
jobRest == <<globalVars, serveVars, reqVars, sysdVars, parseVars, listenVars>>

\* Enter() returns
JobEnter(h) ==
    /\ Enter(h, TheIdler)
    /\ enters' = enters + 1
    /\ UNCHANGED <<exits, lastExit, jobRest>>

\* Exit() returns: its i.active.Add(-1) is done
JobExitDec(h) ==
    /\ ExitDec(h)
    /\ exits' = exits + 1
    /\ lastExit' = thread[h].tnow
    /\ UNCHANGED <<enters, jobRest>>

NextJobs ==
    \/ \E h \in Threads : TickBegin(h, TheIdler) /\ UNCHANGED restVars
    \/ \E h \in Threads : TickStore(h) /\ UNCHANGED restVars
    \/ \E h \in Threads : JobEnter(h)
    \/ \E h \in Threads : ExitBegin(h, TheIdler) /\ UNCHANGED restVars
    \/ \E h \in Threads : JobExitDec(h)
    \/ WatcherCheck(TheIdler) /\ UNCHANGED restVars
    \/ WatcherLoad(TheIdler) /\ UNCHANGED restVars
    \/ WatcherDecide(TheIdler) /\ UNCHANGED restVars
    \/ WatcherWakeT(TheIdler) /\ UNCHANGED restVars
    \/ WatcherWakeDur(TheIdler) /\ UNCHANGED restVars
    \/ WatcherClose(TheIdler) /\ UNCHANGED restVars
    \/ Advance /\ UNCHANGED restVars

SpecJobs == Init /\ [][NextJobs]_vars

(***************************************************************************)
(* Claims about one idler                                                  *)
(***************************************************************************)
Fired(i) == idler[i].c = "closed"

\* C1 (as claimed): while a job is open (its Enter has returned, its Exit is
\* not yet called, and the callers pair Enter and Exit), no step changes the
\* idle signal from pending to fired.
C1_NoFireWhileJobOpen ==
    [][(open > 0 /\ ~misuse /\ ~Fired(TheIdler)) => ~Fired(TheIdler)']_vars

\* C2: an idler on which Tick, Enter and Exit are never called (it is created
\* at clock 0) has not fired before its timeout has elapsed, and it does fire.
C2_FiresAfterTimeout ==
    /\ []((calls = 0 /\ Fired(TheIdler)) => now >= idler[TheIdler].timeout)
    /\ <>(calls # 0 \/ Fired(TheIdler))

C2_Witness == calls = 0 /\ Fired(TheIdler) /\ watcher[TheIdler].pc = "done"

\* C3 (as claimed): the watcher leaves its loop to fire only at a check at
\* which the most recently recorded lastActivity is at least the timeout in
\* the past.
C3_BreaksOnlyWhenLastActivityOld ==
    [][(watcher[TheIdler].pc = "decide" /\ watcher'[TheIdler].pc = "close")
         => now - idler[TheIdler].lastTick >= idler[TheIdler].timeout]_vars

\* C4: once the callers have stopped for good with no job active, the idle
\* signal eventually fires and the watcher goroutine ends.
C4_QuiescentIdlerFires ==
    (quiesced /\ idler[TheIdler].active = 0)
        ~> (Fired(TheIdler) /\ watcher[TheIdler].pc = "done")

\* The callers stopped after a balanced Enter/Exit while the watcher was in
\* its full-timeout sleep.
C4_Witness ==
    /\ quiesced /\ ~misuse /\ calls > 0
    /\ idler[TheIdler].active = 0
    /\ watcher[TheIdler].pc = "sleepT"

\* C5: the channel is closed at most once and only by the watcher; once
\* closed it stays closed, and a receive from it (Wait, Chan) never blocks.
C5_FiresOnceAndStays ==
    /\ [](/\ idler[TheIdler].closes <= 1
          /\ Fired(TheIdler) <=> idler[TheIdler].closes = 1
          /\ Fired(TheIdler) =>
                \A w \in Waiters :
                    waiter[w] = "recv" => ENABLED WaitRecv(w, TheIdler))
    /\ [][Fired(TheIdler) => Fired(TheIdler)']_vars
    /\ [][(idler[TheIdler].c # idler'[TheIdler].c) =>
            (watcher[TheIdler].pc = "close" /\ watcher'[TheIdler].pc = "done")]_vars

\* Both observers returned from Wait after the signal fired, while a caller is
\* inside a later Tick or Exit.
C5_Witness ==
    /\ Fired(TheIdler)
    /\ \A w \in Waiters : waiter[w] = "ret"
    /\ \E h \in Threads : thread[h].pc # "idle"

(***************************************************************************)
(* Claims about the package-level idler                                    *)
(***************************************************************************)
ReturnedNil == {g \in IdlerIds : gcaller[g].ret = "nil"}
ReturnedErr == {g \in IdlerIds : gcaller[g].ret = "err"}
LiveWatchers == {i \in IdlerIds : watcher[i].pc \notin {"none", "done"}}

\* C6: among the calls of idle.Wait at most one returns nil, and it is the
\* call whose idler is installed and has fired; every other call returns the
\* error at its compare-and-swap, without waiting; only the installing call
\* ever waits; once all calls are past the compare-and-swap exactly one is
\* installed; gIdler, once set, never changes.
C6_OneGlobalWaitSucceeds ==
    /\ [](/\ Cardinality(ReturnedNil) <= 1
          /\ \A g \in ReturnedNil : gIdler = g /\ Fired(g)
          /\ \A g \in ReturnedErr : gIdler \notin {Nil, g}
          /\ \A g \in IdlerIds : gcaller[g].pc = "wait" => gIdler = g
          /\ (\A g \in IdlerIds : gcaller[g].pc \in {"wait", "done"}) =>
                /\ gIdler # Nil
                /\ \A g \in IdlerIds \ {gIdler} : gcaller[g].ret = "err")
    /\ [][gIdler # Nil => gIdler' = gIdler]_vars

\* The first call returned nil after going idle; the second call was made
\* after that and returned the error.
C6_Witness ==
    /\ gcaller[1].ret = "nil"
    /\ gcaller[2].ret = "err"
    /\ idler[2].lastTick > idler[1].lastTick + idler[1].timeout

\* C7 (as claimed): at any time at most one watcher goroutine made through
\* idle.Wait exists.
C7_AtMostOneGlobalWatcher == Cardinality(LiveWatchers) <= 1

(***************************************************************************)
(* Claims about a server started by serve                                  *)
(***************************************************************************)
ServeLoopReturned == serveTask.pc \in {"send", "done"}
ReceiverWaiting == \E k \in Clients : client[k].pc = "recv"

\* C8: at most one value is ever sent on Done, and once the serve loop has
\* returned and a receiver waits on Done with nothing sent yet, a value is
\* sent.
C8_DoneDeliveredExactlyOnce ==
    /\ [](doneSent <= 1)
    /\ (ServeLoopReturned /\ ReceiverWaiting /\ doneSent = 0) ~> (doneSent = 1)

\* A server with an idle timeout whose serve loop has returned, with a
\* receiver waiting on Done before anything was sent.
C8_Witness ==
    /\ idleMode
    /\ ServeLoopReturned /\ ReceiverWaiting /\ doneSent = 0
    /\ raceTask.pc = "shutdownRet"

\* C9 (as claimed): the race task reports the winner: the branch it takes,
\* idle (Shutdown is invoked and its result sent on Done) or serve (the serve
\* loop's error is sent and Shutdown is not invoked), is the event that
\* happened first.
C9_RaceReportsFirstEvent ==
    raceTask.branch # "none" => raceTask.branch = firstEvt

\* C10: ServerCtx.Shutdown has called Server.Shutdown before it receives
\* from Done; it returns Shutdown's error when that is non-nil, without
\* receiving, and otherwise the value it received from Done.
C10_ShutdownReturnsFirstError ==
    \A k \in Clients : client[k].op = "Shutdown" =>
        /\ inShutdown
        /\ client[k].pc = "recv" => client[k].sdres = "nil"
        /\ client[k].pc = "ret" =>
              \/ /\ client[k].sdres # "nil"
                 /\ client[k].ret = client[k].sdres
                 /\ client[k].got = "none"
              \/ /\ client[k].sdres = "nil"
                 /\ client[k].got # "none"
                 /\ client[k].ret = client[k].got

\* One Shutdown returned the serve loop's terminal error received from Done,
\* another returned its own Shutdown error.
C10_Witness ==
    /\ client["k1"].op = "Shutdown" /\ client["k1"].pc = "ret"
    /\ client["k1"].sdres = "nil" /\ client["k1"].ret = "ErrServerClosed"
    /\ client["k2"].op = "Shutdown" /\ client["k2"].pc = "ret"
    /\ client["k2"].ret = "ErrShutdown"

(***************************************************************************)
(* Claims about the requests of a server with an idle timeout              *)
(***************************************************************************)
HandlerStarted(h) == request[h].pc = "handler"

\* C11: in a server with an idle timeout every request calls Tick() on the
\* server's idler before the original handler is invoked, so the recorded
\* lastTick is never older than the arrival of a request whose handler has
\* started.
C11_LastActivityCoversStartedRequests ==
    \A h \in Threads :
        HandlerStarted(h) => idler[TheIdler].lastTick >= request[h].arrived

(***************************************************************************)
(* Claims about SysdConfig.GetListener                                     *)
(***************************************************************************)
\* The calls that have got the result of parse().
PastParse ==
    {c \in Callers : call[c].n > 0 /\ call[c].pc \in {"defer", "returned"} \cup UnsetPcs}
\* The calls that got the environment without error and passed the PID check.
Resolving ==
    {c \in PastParse : /\ call[c].err = "nil"
                       /\ ~(call[c].cfg.CheckPID /\ call[c].envData.pid # Num(Getpid))}
AllUnset(e) == \A v \in EnvVars : ~e[v].set
Wrapping(c) == call[c].ret \in {"nil", "FileListener error"}

\* C12: the systemd environment is read and parsed at most once per process:
\* every call of SysdConfig.GetListener, sequential or concurrent, sees the
\* data or the error of the first computation, whatever happens to the
\* environment variables afterwards; the computation is never repeated.
C12_EnvironmentParsedOnce ==
    /\ [](parses <= 1)
    /\ [](\A c \in PastParse : /\ call[c].envData = sysdEnvParser.data
                               /\ call[c].err = sysdEnvParser.err)
    /\ [][sysdEnvParser.once = "done" => sysdEnvParser' = sysdEnvParser]_vars

\* A second call has returned with the data of the first computation while
\* LISTEN_PID is no longer set.
C12_Witness ==
    \E c \in Callers :
        /\ call[c].pc = "returned"
        /\ call[c].n = 2
        /\ call[c].err = "nil"
        /\ call[c].envData.pid = Num(Getpid)
        /\ ~env["LISTEN_PID"].set

\* C13: a call with UnsetEnv true leaves LISTEN_PID, LISTEN_FDS and
\* LISTEN_FDNAMES unset when it returns, on every return path, and clears them
\* only at its return, after the environment has been read; a call with
\* UnsetEnv false leaves the three variables unchanged.
C13_UnsetEnvOnEveryReturn ==
    [][\A c \in Callers :
          /\ (call[c].pc # "returned" /\ call'[c].pc = "returned")
                => IF call[c].cfg.UnsetEnv THEN AllUnset(env') ELSE env' = env
          /\ (call[c].n > 0 /\ ~call[c].cfg.UnsetEnv) => env' = env
          /\ (call[c].n > 0 /\ env' # env)
                => (call[c].pc \in UnsetPcs /\ sysdEnvParser.once = "done")]_vars

\* A first call with UnsetEnv has returned the descriptor wrap failure: the
\* variables are unset and the call had read the PID from them.
C13_Witness ==
    \E c \in Callers :
        /\ call[c].pc = "returned"
        /\ call[c].n = 1
        /\ call[c].cfg.UnsetEnv
        /\ call[c].ret = "FileListener error"
        /\ call[c].envData.pid = Num(Getpid)
        /\ AllUnset(env)

\* C14: resolution by FDIndex chooses a descriptor iff 0 <= idx < FDCount;
\* the descriptor is 3 + idx and its name is FDNames[idx] when that element
\* exists and the placeholder otherwise; any other idx yields the range error
\* and no descriptor is wrapped.
C14_ResolveByIndex ==
    \A c \in Resolving :
        call[c].cfg.FDIndex # <<>> =>
            LET idx == IntVal(call[c].cfg.FDIndex[1])
                d == call[c].envData
            IN IF 0 <= idx /\ idx < IntVal(d.numFds)
                 THEN /\ Wrapping(c)
                      /\ call[c].fd = Num(3 + idx)
                      /\ call[c].name = IF idx + 1 \in DOMAIN d.fdNames
                                          THEN d.fdNames[idx + 1]
                                          ELSE Str("sysdfd_") \o Itoa(3 + idx)
                 ELSE /\ call[c].ret = "invalid fd index"
                      /\ call[c].fd = Zero

\* LISTEN_FDS=2, LISTEN_FDNAMES=a:b, idx=1: descriptor 4 named b.
C14_Witness ==
    \E c \in Callers :
        /\ call[c].pc = "returned"
        /\ call[c].cfg.FDIndex = <<One>>
        /\ call[c].envData.numFds = Str("2")
        /\ call[c].ret = "nil"
        /\ call[c].fd = Str("4")
        /\ call[c].name = Str("b")

\* C15: resolution by FDName chooses descriptor 3 + i for the smallest index
\* i with FDNames[i] equal to the name; with no such element it fails with
\* the name-not-found error and no descriptor is wrapped.
C15_ResolveByName ==
    \A c \in Resolving :
        (call[c].cfg.FDIndex = <<>> /\ call[c].cfg.FDName # <<>>) =>
            LET names == call[c].envData.fdNames
                matches == {i \in 1..Len(names) : names[i] = call[c].cfg.FDName[1]}
            IN IF matches # {}
                 THEN /\ Wrapping(c)
                      /\ \E i \in matches : /\ \A j \in matches : i <= j
                                            /\ call[c].fd = Num(3 + (i - 1))
                 ELSE /\ call[c].ret = "fdName not found"
                      /\ call[c].fd = Zero

\* LISTEN_FDNAMES=b:a:a, name=a: the first a, descriptor 4.
C15_Witness ==
    \E c \in Callers :
        /\ call[c].pc = "returned"
        /\ call[c].cfg.FDIndex = <<>>
        /\ call[c].cfg.FDName = <<(Str("a"))>>
        /\ Len(call[c].envData.fdNames) = 3
        /\ call[c].ret = "nil"
        /\ call[c].fd = Str("4")

\* C16: with CheckPID true a descriptor is wrapped only if the parsed
\* LISTEN_PID equals the process id, and a mismatch fails with the mismatch
\* error before any descriptor is resolved; with CheckPID false a mismatching
\* LISTEN_PID does not make the call fail.
C16_CheckPID ==
    \A c \in PastParse :
        call[c].err = "nil" =>
            LET d == call[c].envData
                cfg == call[c].cfg
            IN /\ (cfg.CheckPID /\ d.pid # Num(Getpid))
                     => (call[c].ret = "unexpected PID" /\ call[c].fd = Zero)
               /\ (cfg.CheckPID /\ call[c].fd # Zero) => d.pid = Num(Getpid)
               /\ ~cfg.CheckPID => call[c].ret # "unexpected PID"
               /\ (~cfg.CheckPID /\ cfg.FDIndex # <<>>
                     /\ 0 <= IntVal(cfg.FDIndex[1])
                     /\ IntVal(cfg.FDIndex[1]) < IntVal(d.numFds))
                     => call[c].fd = Num(3 + IntVal(cfg.FDIndex[1]))

\* A call with CheckPID has returned the mismatch error for LISTEN_PID=17.
C16_Witness ==
    \E c \in Callers :
        /\ call[c].pc = "returned"
        /\ call[c].cfg.CheckPID
        /\ call[c].envData.pid = Str("17")
        /\ call[c].ret = "unexpected PID"
        /\ call[c].fd = Zero

(***************************************************************************)
(* Claims about parseAddress and GetListener                               *)
(***************************************************************************)
\* The text an escaped part of the addresses of the model stands for:
\* %2F is "/", %61 is "a", %75 is "u", %79 is "y" and, in a query, "+" is a
\* space.
Plain(s) ==
    CASE s = Str("%2Fa") -> Str("/a")
      [] s = Str("a+b") -> Str("a b")
      [] s = Str("p%61th") -> Str("path")
      [] s = Str("%75nix") -> Str("unix")
      [] s = Str("s%79sd") -> Str("sysd")
      [] OTHER -> s

\* The address with every part replaced by the text it stands for.
Meant(g) ==
    [path |-> Plain(g.path),
     pairs |-> [i \in 1..Len(g.pairs) |->
                  [key |-> Plain(g.pairs[i].key), val |-> Plain(g.pairs[i].val)]]]

meant == Meant(given)

\* The values the documentation gives the option texts of the model that
\* are well formed: 600 is octal, 384; 30m, 1h30m, 1.5s and 1us are durations,
\* counted in nanoseconds.
WantValue(key, val) ==
    CASE key = Str("path") /\ val = Str("/a") -> <<Str("/a")>>
      [] key = Str("path") /\ val = Str("a b") -> <<Str("a b")>>
      [] key = Str("mode") /\ val = Str("600") -> <<Str("384")>>
      [] key = Str("remove_existing") /\ val = Str("false") -> <<FALSE>>
      [] key = Str("remove_existing") /\ val = Str("T") -> <<TRUE>>
      [] key = Str("idx") /\ val = Str("1") -> <<Str("1")>>
      [] key = Str("name") /\ val = Str("a") -> <<Str("a")>>
      [] key = Str("check_pid") /\ val = Str("false") -> <<FALSE>>
      [] key = Str("unset_env") /\ val = Str("0") -> <<FALSE>>
      [] key = Str("idle_timeout") /\ val = Str("30m") -> <<Str("1800000000000")>>
      [] key = Str("idle_timeout") /\ val = Str("1h30m") -> <<Str("5400000000000")>>
      [] key = Str("idle_timeout") /\ val = Str("1.5s") -> <<Str("1500000000")>>
      [] key = Str("idle_timeout") /\ val = Str("1us") -> <<Str("1000")>>
      [] OTHER -> <<>>

GivenKeys(g) == {g.pairs[i].key : i \in 1..Len(g.pairs)}

\* The value the address gives the key, or the default when it has none.
Supplied(g, key, default) ==
    IF key \in GivenKeys(g)
      THEN WantValue(key, g.pairs[CHOOSE i \in 1..Len(g.pairs) : g.pairs[i].key = key].val)[1]
      ELSE default

\* A valid address: unix or sysd, every key once, every value well formed,
\* with a path for unix and with exactly one of idx and name for sysd.
ValidGiven(g) ==
    /\ g.path \in {Str("unix"), Str("sysd")}
    /\ \A i \in 1..Len(g.pairs) : WantValue(g.pairs[i].key, g.pairs[i].val) # <<>>
    /\ \A i, j \in 1..Len(g.pairs) : g.pairs[i].key = g.pairs[j].key => i = j
    /\ g.path = Str("unix") =>
          /\ Str("path") \in GivenKeys(g)
          /\ GivenKeys(g) \subseteq {Str("path"), Str("mode"), Str("remove_existing")}
    /\ g.path = Str("sysd") =>
          /\ (Str("idx") \in GivenKeys(g)) # (Str("name") \in GivenKeys(g))
          /\ GivenKeys(g) \subseteq {Str("idx"), Str("name"), Str("check_pid"),
                                     Str("unset_env"), Str("idle_timeout")}

\* The documented configuration of a valid address.
Documented(g) ==
    IF g.path = Str("unix")
      THEN [done |-> TRUE, addrType |-> "UnixSocket", sysc |-> <<>>, err |-> "nil",
            usc |-> <<[SocketPath |-> Supplied(g, Str("path"), <<>>),
                       SocketMode |-> Supplied(g, Str("mode"), Str("438")),
                       RemoveExisting |-> Supplied(g, Str("remove_existing"), TRUE)]>>]
      ELSE [done |-> TRUE, addrType |-> "SystemdFD", usc |-> <<>>, err |-> "nil",
            sysc |-> <<[FDIndex |-> IF Str("idx") \in GivenKeys(g)
                                      THEN <<Supplied(g, Str("idx"), Zero)>> ELSE <<>>,
                        FDName |-> IF Str("name") \in GivenKeys(g)
                                     THEN <<Supplied(g, Str("name"), <<>>)>> ELSE <<>>,
                        CheckPID |-> Supplied(g, Str("check_pid"), TRUE),
                        UnsetEnv |-> Supplied(g, Str("unset_env"), TRUE),
                        IdleTimeout |-> IF Str("idle_timeout") \in GivenKeys(g)
                                          THEN <<Supplied(g, Str("idle_timeout"), Zero)>>
                                          ELSE <<>>]>>]

\* C17: resolving a valid unix?... or sysd?... address gives the type
\* UnixSocket or SystemdFD and the configuration that is the documented
\* defaults (mode 0666 and remove_existing true; check_pid true, unset_env
\* true, no idle timeout) overridden by exactly the keys of the address, the
\* mode read as octal, the booleans, the integer, the name and the duration
\* read as such; in whatever order the keys are taken.
C17_ValidAddressGivesDocumentedConfig ==
    (resolved.done /\ ValidGiven(meant)) => resolved = Documented(meant)

\* C17 witness: unix?path=/a&mode=600 or mode=600&path=/a is resolved to the
\* path /a, the mode 0600 and the default remove_existing.
C17_Witness ==
    /\ resolved.done
    /\ ValidGiven(given)
    /\ given.path = Str("unix")
    /\ GivenKeys(given) = {Str("path"), Str("mode")}
    /\ resolved.usc = <<[SocketPath |-> Str("/a"), SocketMode |-> Str("384"),
                         RemoveExisting |-> TRUE]>>

\* The pairs of the address that u.Query() keeps: those it can decode.
KeptPairs(g) ==
    SelectSeq(g.pairs, LAMBDA p : /\ ~BadEscape(p.key)
                                  /\ ~BadEscape(p.val)
                                  /\ IndexOf(p.key \o p.val, ";") = 0)

KeysOf(ps) == {ps[i].key : i \in 1..Len(ps)}

\* idx or name but not both is among the keys.
OneSelector(keys) == (Str("idx") \in keys) # (Str("name") \in keys)

\* The options parseAddress knows for the path.
Recognized(path) ==
    IF path = Str("unix") THEN {Str("path"), Str("mode"), Str("remove_existing")}
    ELSE {Str("name"), Str("idx"), Str("check_pid"), Str("unset_env"), Str("idle_timeout")}

\* A recognized key is written twice in the address.
RepeatedKey(g) ==
    \E i, j \in 1..Len(g.pairs) :
        i # j /\ g.pairs[i].key = g.pairs[j].key /\ g.pairs[i].key \in Recognized(g.path)

\* A key that is no option of the path is written in the address.
UnrecognizedKey(g) == \E i \in 1..Len(g.pairs) : g.pairs[i].key \notin Recognized(g.path)

\* Every key=value pair of the query is well formed: no malformed percent
\* escape and no semicolon.
WellFormedQuery(g) == KeptPairs(g) = g.pairs

\* An option of the address has a value that is no literal of the option's
\* type: idx=x is no integer, unset_env=x no boolean, idle_timeout=5 no
\* duration (it has no unit).
MalformedValue(g) ==
    \E i \in 1..Len(g.pairs) :
        g.pairs[i] \in {Pair(Str("idx"), Str("x")), Pair(Str("unset_env"), Str("x")),
                        Pair(Str("idle_timeout"), Str("5"))}

C18_WitnessBadValue ==
    /\ resolved.done
    /\ addr = Str("sysd?idx=x")
    /\ resolved.err # "nil"

\* C18 third witness: sysd?name=a&idle_timeout=30m, one selector and a valid
\* option, was resolved.
C18_WitnessResolved ==
    /\ resolved.done
    /\ addr = Str("sysd?name=a&idle_timeout=30m")
    /\ resolved.err = "nil"

\* C19 (as claimed): resolving an address whose path is unix or sysd fails
\* whenever a recognized key appears with more than one value or a key that
\* is not recognized is present, whatever the other keys are and in whatever
\* order the keys are taken.
C19_RepeatedOrUnrecognizedKeyFails ==
    (/\ resolved.done
     /\ meant.path \in {Str("unix"), Str("sysd")}
     /\ RepeatedKey(meant) \/ UnrecognizedKey(meant)) => resolved.err # "nil"

\* C20: resolving an address whose URL path is neither exactly unix nor
\* exactly sysd, or that is no URL, succeeds with the type TCP and neither
\* configuration, and the listener is asked for on tcp at the address string
\* unchanged, the empty string replaced by :http.
C20_OtherAddressIsTCP ==
    (outcome.done /\ meant.path \notin {Str("unix"), Str("sysd")}) =>
        /\ resolved = [done |-> TRUE, addrType |-> "TCP", usc |-> <<>>,
                       sysc |-> <<>>, err |-> "nil"]
        /\ outcome = [done |-> TRUE, addrType |-> "TCP", listen |-> "tcp",
                      on |-> IF addr = <<>> THEN Str(":http") ELSE addr,
                      err |-> "nil"]

\* C20 witness: GetListener("") asked for a TCP listener on :http.
C20_Witness ==
    /\ outcome.done
    /\ addr = <<>>
    /\ resolved.addrType = "TCP"
    /\ outcome.listen = "tcp"
    /\ outcome.on = Str(":http")

\* C27: every successful result of parseAddress has exactly one variant:
\* TCP with neither configuration, UnixSocket with only a unix configuration
\* whose SocketPath is not empty, or SystemdFD with only a systemd
\* configuration in which exactly one of FDIndex and FDName is set.
C27_OneActiveVariant ==
    (resolved.done /\ resolved.err = "nil") =>
        \/ /\ resolved.addrType = "TCP"
           /\ resolved.usc = <<>>
           /\ resolved.sysc = <<>>
        \/ /\ resolved.addrType = "UnixSocket"
           /\ resolved.sysc = <<>>
           /\ Len(resolved.usc) = 1
           /\ resolved.usc[1].SocketPath # <<>>
        \/ /\ resolved.addrType = "SystemdFD"
           /\ resolved.usc = <<>>
           /\ Len(resolved.sysc) = 1
           /\ (resolved.sysc[1].FDIndex = <<>>) # (resolved.sysc[1].FDName = <<>>)

\* C27 witness: a unix address with options and a path was resolved to a unix
\* configuration only.
C27_Witness ==
    /\ resolved.done
    /\ resolved.err = "nil"
    /\ resolved.addrType = "UnixSocket"
    /\ Len(given.pairs) = 2
    /\ resolved.sysc = <<>>
    /\ resolved.usc[1].SocketPath = Str("/a")

\* C28 (as claimed): every SysdConfig of a successful resolution has
\* FDIndex >= 0 when FDIndex is set and IdleTimeout > 0 when IdleTimeout is
\* set: a negative idx and a zero or negative idle_timeout are refused.
C28_SysdConfigInRange ==
    (resolved.done /\ resolved.err = "nil" /\ resolved.sysc # <<>>) =>
        /\ resolved.sysc[1].FDIndex # <<>> => ~IsNegative(resolved.sysc[1].FDIndex[1])
        /\ resolved.sysc[1].IdleTimeout # <<>> =>
              IntLess(Zero, resolved.sysc[1].IdleTimeout[1])

\* Two results of parseAddress agree: both fail, or both succeed with the
\* same type and the same configuration.
SameResolution(a, b) ==
    /\ (a.err = "nil") = (b.err = "nil")
    /\ a.err = "nil" => a = b

\* C29: resolving is a function of the address string: whatever the order in
\* which the keys of the query are taken, the result agrees with the one
\* GetListener got on success or failure and, on success, on the type and on
\* every field of the configuration.
C29_ResolutionIgnoresKeyOrder ==
    resolved.done =>
        \A r \in parseAddress(addr) : SameResolution(resolved, Resolved(r))

\* C29 witness: a sysd address with two different keys, which can be taken in
\* two orders, was resolved.
C29_Witness ==
    /\ resolved.done
    /\ resolved.err = "nil"
    /\ given.path = Str("sysd")
    /\ Cardinality(QueryKeys(QueryPairs(ParseURL(addr).RawQuery))) = 2

(***************************************************************************)
(* Claims about serve and the listeners                                    *)
(***************************************************************************)
\* C21 (as claimed): when UnixSocketConfig.GetListener has returned an
\* error, no listening socket that the call opened is still open; so after a
\* bind that succeeded and a chmod that failed the listener is closed.
C21_FailedUnixListenerIsClosed ==
    (sock.pc = "returned" /\ sock.ret # "nil") => sock.l # "open"

\* The resolution of the address has failed.
ResolutionFailed == resolved.done /\ resolved.err # "nil"

\* C22: when the resolution of the address fails, serve returns the error
\* and no handle, and nothing else happens: nothing is removed, no socket is
\* bound, no descriptor is wrapped, the environment is neither read nor
\* changed, no idler is made and no goroutine is started.
C22_FailedResolutionDoesNothing ==
    /\ [](ResolutionFailed =>
            /\ srv.pc \in {"dispatch", "returned"}
            /\ srv.pc = "returned" => (srv.ret = resolved.err /\ ~srv.handle)
            /\ srv.tcp = "none"
            /\ sock.pc = "none" /\ sock.removed = 0 /\ sock.binds = 0 /\ sock.l = "none"
            /\ call = [c \in Callers |-> NoCall]
            /\ sysdCalls = 0 /\ parses = 0 /\ sysdEnvParser = NewParser
            /\ \A i \in IdlerIds : ~idler[i].alloc /\ watcher[i] = NoWatcher
            /\ serveTask = NoTask /\ raceTask = NoRace /\ ~idleMode)
    /\ [][ResolutionFailed => (env' = env /\ sock' = sock)]_vars
    /\ [](ResolutionFailed => ENABLED ListenFailed \/ srv.pc = "returned")

\* C22 witness: serve returned the error of a unix address whose loop had
\* set the path before it met the bad option.
C22_Witness ==
    /\ srv.pc = "returned"
    /\ resolved.err = "Bad option"
    /\ srv.ret = "Bad option"
    /\ resolved.usc # <<>>
    /\ resolved.usc[1].SocketPath = Str("/a")
    /\ sock.file = "file"

\* C30: UnixSocketConfig.GetListener with RemoveExisting false never deletes
\* what is at SocketPath and fails when the path is occupied; with
\* RemoveExisting true it deletes before it binds, goes on when os.Remove
\* reports that nothing is there, and on any other error of os.Remove
\* returns it without binding.
C30_RemoveExisting ==
    /\ []((sock.pc # "none" /\ ~sock.cfg.RemoveExisting) =>
            /\ sock.removed = 0
            /\ (sock.pc = "returned" /\ sock.file = "file") =>
                  (sock.ret = "EADDRINUSE" /\ sock.binds = 0 /\ sock.l = "none"))
    /\ [][(sock.pc # "none" /\ ~sock.cfg.RemoveExisting /\ sock.file = "file")
            => sock'.file = "file"]_vars
    /\ []((sock.cfg.RemoveExisting /\ sock.pc = "remove") =>
            sock.binds = 0 /\ sock.l = "none")
    /\ [][(sock.pc = "remove" /\ sock'.pc # "remove") =>
            \/ /\ sock.file # "absent"
               /\ sock' = [sock EXCEPT !.pc = "listen", !.file = "absent",
                                       !.removed = @ + 1]
            \/ /\ sock.file = "absent"
               /\ sock' = [sock EXCEPT !.pc = "listen"]
            \/ sock' = [sock EXCEPT !.pc = "returned", !.ret = "EPERM"]]_vars
    /\ []((sock.cfg.RemoveExisting /\ sock.pc \in {"listen", "chmod"}) =>
            sock.file # "file")

\* C30 witness: with RemoveExisting true the file at the path was deleted and
\* the socket bound in its place.
C30_Witness ==
    /\ sock.pc = "returned"
    /\ sock.ret = "nil"
    /\ sock.cfg.RemoveExisting
    /\ sock.removed = 1
    /\ sock.binds = 1
    /\ sock.file = "socket"

\* The resolved address is SystemdFD and carries an idle timeout.
CarriesIdleTimeout ==
    /\ resolved.addrType = "SystemdFD"
    /\ resolved.sysc # <<>>
    /\ resolved.sysc[1].IdleTimeout # <<>>

\* C31: when serve has returned a handle, the handle has an idler and the
\* handler is wrapped exactly when the resolved address is SystemdFD and
\* carries an idle timeout; then the idler has that timeout, the handler of
\* the server calls Tick of that idler and then the handler serve was given
\* (http.DefaultServeMux for nil), and the task that waits for the idle signal
\* is started.  For every other address (TCP, unix socket, systemd without
\* idle_timeout) there is no idler, no watcher and no task that could shut
\* the server down on idleness, the handler of the server is the one serve
\* was given, unmodified and calling no Tick, and the serving task alone is
\* started.
C31_IdlerIffSysdWithIdleTimeout ==
    srv.handle =>
      /\ serveTask.pc = "serving"
      /\ idleMode <=> CarriesIdleTimeout
      /\ idler[TheIdler].alloc <=> CarriesIdleTimeout
      /\ srv.handler.tick # <<>> <=> CarriesIdleTimeout
      /\ srv.h \in HandlerArgs
      /\ CarriesIdleTimeout =>
            /\ idler[TheIdler].timeout = resolved.sysc[1].IdleTimeout[1]
            /\ watcher[TheIdler] = NewWatcher
            /\ raceTask = [NoRace EXCEPT !.pc = "select"]
            /\ srv.handler.tick = <<TheIdler>>
            /\ srv.h # "nil" => srv.handler.h = srv.h
            /\ srv.h = "nil" => srv.handler.h = "DefaultServeMux"
      /\ ~CarriesIdleTimeout =>
            /\ \A i \in IdlerIds : idler[i] = NoIdler /\ watcher[i] = NoWatcher
            /\ raceTask = NoRace
            /\ ~inShutdown
            /\ srv.handler = [tick |-> <<>>, h |-> srv.h]

\* C31 witness: serve returned a handle for a systemd address with an idle
\* timeout, with the idler made and the handler given to serve wrapped: the
\* server's handler calls the idler's Tick and then that handler.
C31_Witness ==
    /\ srv.handle
    /\ CarriesIdleTimeout
    /\ idleMode
    /\ idler[TheIdler].alloc
    /\ raceTask.pc = "select"
    /\ srv.h = "h"
    /\ srv.handler = [tick |-> <<TheIdler>>, h |-> "h"]

\* C31 second witness: serve returned a handle for a systemd address without
\* idle timeout: no idler exists and the server's handler is the handler
\* given to serve.
C31_WitnessPlainSysd ==
    /\ srv.handle
    /\ resolved.addrType = "SystemdFD"
    /\ ~CarriesIdleTimeout
    /\ ~idleMode
    /\ ~idler[TheIdler].alloc
    /\ srv.h = "h"
    /\ srv.handler = [tick |-> <<>>, h |-> "h"]

\* C31 third witness: serve was given the nil handler for a TCP address and
\* the server's handler is nil.
C31_WitnessNilHandler ==
    /\ srv.handle
    /\ resolved.addrType = "TCP"
    /\ srv.h = "nil"
    /\ srv.handler = [tick |-> <<>>, h |-> "nil"]

\* C32 (as claimed): once the serve loop has returned, every caller that
\* receives from Done (a Wait, or a Shutdown whose Server.Shutdown returned
\* nil) eventually returns, whatever the number and the order of the calls.
C32_EveryWaitAndShutdownReturns ==
    \A k \in Clients :
        (ServeLoopReturned /\ client[k].pc = "recv") ~> (client[k].pc = "ret")

\* C33 (as claimed): once the serve loop has returned and a receiver has
\* taken the value from Done, the goroutines that serve started end: the one
\* that runs the serve loop and, with an idle timeout, the one that selects
\* between the serve loop's result and the idle signal.
C33_ServeTasksTerminate ==
    (ServeLoopReturned /\ doneSent = 1) ~>
        (serveTask.pc = "done" /\ raceTask.pc \in {"none", "done"})

\* C34 (as claimed): every descriptor that SysdConfig.GetListener hands to
\* makeFdListener is one of the LISTEN_FDS descriptors systemd passed,
\* StartFD <= fd < StartFD + numFds, whether FDIndex or FDName selected it.
C34_WrappedDescriptorInRange ==
    \A c \in Callers :
        (c \in PastParse /\ call[c].fd # Zero) =>
            /\ StartFD <= IntVal(call[c].fd)
            /\ IntVal(call[c].fd) < StartFD + IntVal(call[c].envData.numFds)

\* The handler of request h is running: h.ServeHTTP was called by the
\* wrapper and has not returned.
HandlerInProgress(h) == request[h].pc = "handler"

\* C35 (as claimed): in a server with an idle timeout the idle signal does
\* not fire while a request handler is in progress, however long the handler
\* runs: no step taken while some handler is running closes the idler's
\* channel.
C35_NoIdleFireWhileHandlerRuns ==
    [][(\E h \in Threads : HandlerInProgress(h)) =>
          (Fired(TheIdler)' => Fired(TheIdler))]_vars

(***************************************************************************)
(* Claims about Enter and Exit                                             *)
(***************************************************************************)
\* Nobody is inside a Tick or an Exit.
NoCallRunning == \A h \in Threads : thread[h].pc = "idle"

\* C23 (as claimed): Exit records the time before it decrements the
\* counter, so the idle signal never fires less than the timeout after the
\* last Exit of a balanced Enter/Exit sequence: when the watcher closes the
\* channel after every job has exited, the last Exit is at least the timeout
\* in the past.
C23_NoFireWithinTimeoutOfLastExit ==
    [][(/\ watcher[TheIdler].pc = "close"
        /\ watcher'[TheIdler].pc = "done"
        /\ ~misuse
        /\ exits > 0
        /\ exits = enters
        /\ NoCallRunning)
         => now - lastExit >= idler[TheIdler].timeout]_vars

\* C24: in every state the counter is the number of Enter calls that have
\* returned minus the number of Exit calls that have returned; when every
\* Exit follows its own Enter the counter is never negative, and it is zero
\* when every job has exited.
C24_ActiveIsEntersMinusExits ==
    /\ idler[TheIdler].active = enters - exits
    /\ ~misuse => idler[TheIdler].active >= 0
    /\ (~misuse /\ open = 0 /\ NoCallRunning) => idler[TheIdler].active = 0

\* C24 witness: two jobs were entered by the two callers and both are open.
C24_Witness ==
    /\ enters = 2
    /\ exits = 0
    /\ idler[TheIdler].active = 2
    /\ open = 2

\* C25 (as claimed): after an Exit with no Enter before it the counter is
\* negative, and while it is the watcher does not fire: no step closes the
\* channel while the counter is below zero.
C25_NoFireWhileCounterNegative ==
    [][(idler[TheIdler].active < 0 /\ ~Fired(TheIdler)) => ~Fired(TheIdler)']_vars

\* C26 (as claimed): at a check with the counter zero the watcher sleeps
\* exactly the remaining time when it is positive and leaves the loop to fire
\* when it is zero or negative; with the counter not zero it sleeps the full
\* timeout.
C26_BreaksWhenNothingRemains ==
    [][/\ (watcher[TheIdler].pc = "decide" /\ watcher'[TheIdler].pc # "decide") =>
            LET rem == Remaining(watcher[TheIdler].t, idler[TheIdler].timeout, now)
            IN IF rem > 0
                 THEN /\ watcher'[TheIdler].pc = "sleepDur"
                      /\ watcher'[TheIdler].wake = now + rem
                 ELSE watcher'[TheIdler].pc = "close"
       /\ (watcher[TheIdler].pc = "check" /\ watcher'[TheIdler].pc # "check") =>
            IF idler[TheIdler].active # 0
              THEN /\ watcher'[TheIdler].pc = "sleepT"
                   /\ watcher'[TheIdler].wake = now + idler[TheIdler].timeout
              ELSE watcher'[TheIdler].pc = "load"]_vars

\* C26 (amended): at a check with the counter zero the watcher sleeps exactly
\* the remaining time when it is positive or zero (a sleep of no length when
\* it is zero) and checks again; it leaves the loop to fire only when the
\* remaining time is negative; with the counter not zero it sleeps the full
\* timeout and loads no time.
C26_BreaksWhenRemainingNegative ==
    [][/\ (watcher[TheIdler].pc = "decide" /\ watcher'[TheIdler].pc # "decide") =>
            LET rem == Remaining(watcher[TheIdler].t, idler[TheIdler].timeout, now)
            IN IF rem >= 0
                 THEN /\ watcher'[TheIdler].pc = "sleepDur"
                      /\ watcher'[TheIdler].wake = now + rem
                 ELSE watcher'[TheIdler].pc = "close"
       /\ (watcher[TheIdler].pc = "check" /\ watcher'[TheIdler].pc # "check") =>
            IF idler[TheIdler].active # 0
              THEN /\ watcher'[TheIdler].pc = "sleepT"
                   /\ watcher'[TheIdler].wake = now + idler[TheIdler].timeout
              ELSE watcher'[TheIdler].pc = "load"
       /\ (watcher[TheIdler].pc = "sleepDur" /\ watcher'[TheIdler].pc # "sleepDur") =>
            watcher'[TheIdler].pc = "check"]_vars

\* C26 witness: nothing was called, the watcher found exactly the timeout
\* elapsed and is in a sleep of no length instead of firing.
C26_Witness ==
    /\ calls = 0
    /\ watcher[TheIdler].pc = "sleepDur"
    /\ watcher[TheIdler].wake = idler[TheIdler].lastTick + idler[TheIdler].timeout
    /\ now = watcher[TheIdler].wake
    /\ ~Fired(TheIdler)

=============================================================================

